---- MODULE Spec2Model ----
(***************************************************************************)
(* Model of the job_tracker persistence layer (src/src/db.rs) and of the   *)
(* domain model it stores (src/src/model.rs).                              *)
(*                                                                         *)
(* Texts that the program formats or parses (status texts, date texts,     *)
(* decimal numbers) are sequences of one-character strings, so that        *)
(* formatting and parsing are computed and not assumed to be inverse.      *)
(* Free texts that the program only copies (company, position, location)   *)
(* are plain strings.                                                      *)
(***************************************************************************)
EXTENDS Integers, Sequences, FiniteSets, TLC

(***************************************************************************)
(* Option<T>: None is the empty sequence, Some(x) the one-element one.     *)
(***************************************************************************)
None == << >>
Some(x) == << x >>
IsSome(o) == Len(o) = 1
IsNone(o) == Len(o) = 0
Unwrap(o) == o[1]

(***************************************************************************)
(* Result<T, E>.  Each success type has a field of its own: Ok holds a     *)
(* Status, OkId an i64, OkJob a JobApplication, OkJobs a Vec of them and   *)
(* OkUnit the unit value.                                                  *)
(***************************************************************************)
Ok(v) == [ok |-> TRUE, val |-> v]
OkId(id) == [ok |-> TRUE, id |-> id]
OkJob(job) == [ok |-> TRUE, job |-> job]
OkJobs(jobs) == [ok |-> TRUE, jobs |-> jobs]
OkUnit == [ok |-> TRUE, unit |-> TRUE]
Err(e) == [ok |-> FALSE, err |-> e]

(***************************************************************************)
(* Decimal digits and integer widths.                                      *)
(***************************************************************************)
DigitChars == <<"0", "1", "2", "3", "4", "5", "6", "7", "8", "9">>
DigitSet == {DigitChars[i] : i \in 1..10}
IsDigit(c) == c \in DigitSet
DigitVal(c) == (CHOOSE i \in 1..10 : DigitChars[i] = c) - 1

U8_MAX == 255
I32_MAX == 2147483647
I32_MIN == -2147483647 - 1
\* u32::MAX = 4294967295 and i64 values are decimal magnitudes (digit
\* sequences without leading zeros), as they exceed the checker's integers.
U32_MAX_MAG == <<4, 2, 9, 4, 9, 6, 7, 2, 9, 5>>
I32_MAX_MAG == <<2, 1, 4, 7, 4, 8, 3, 6, 4, 7>>
I32_MIN_MAG == <<2, 1, 4, 7, 4, 8, 3, 6, 4, 8>>
U8_MAX_MAG == <<2, 5, 5>>

RECURSIVE MagLess(_, _)
\* a < b for two magnitudes without leading zeros
MagLess(a, b) ==
    IF Len(a) # Len(b) THEN Len(a) < Len(b)
    ELSE IF Len(a) = 0 THEN FALSE
    ELSE IF a[1] # b[1] THEN a[1] < b[1]
    ELSE MagLess(Tail(a), Tail(b))

MagLeq(a, b) == a = b \/ MagLess(a, b)

RECURSIVE StripZeros(_)
StripZeros(ds) ==
    IF Len(ds) > 1 /\ ds[1] = 0 THEN StripZeros(Tail(ds)) ELSE ds

RECURSIVE MagToNat(_)
\* value of a magnitude that fits the checker's integers
MagToNat(ds) ==
    IF Len(ds) = 0 THEN 0
    ELSE MagToNat(SubSeq(ds, 1, Len(ds) - 1)) * 10 + ds[Len(ds)]

RECURSIVE MagToNeg(_)
\* minus the value of a magnitude, accumulated downwards as Rust does for a
\* negative literal, so that i32::MIN needs no negation
MagToNeg(ds) ==
    IF Len(ds) = 0 THEN 0
    ELSE MagToNeg(SubSeq(ds, 1, Len(ds) - 1)) * 10 - ds[Len(ds)]

RECURSIVE NatToMag(_)
NatToMag(n) ==
    IF n < 10 THEN <<n>> ELSE NatToMag(n \div 10) \o <<n % 10>>

MagToChars(ds) == [i \in 1..Len(ds) |-> DigitChars[ds[i] + 1]]

\* Display for an unsigned integer
FmtNat(n) == MagToChars(NatToMag(n))

\* Display for i32: a minus sign and the magnitude; the magnitude of a
\* negative n is computed from -(n + 1), which always fits
FmtInt(n) ==
    IF n >= 0 THEN FmtNat(n)
    ELSE LET m == -(n + 1)
             d == ((m % 10) + 1) % 10
             q == (m \div 10) + (IF m % 10 = 9 THEN 1 ELSE 0)
         IN  <<"-">> \o (IF q = 0 THEN << >> ELSE FmtNat(q)) \o <<DigitChars[d + 1]>>

\* Display for a u32 held as a magnitude
FmtMag(ds) == MagToChars(ds)

(***************************************************************************)
(* str::parse for the integer types: an optional "+" (and, for signed      *)
(* types, "-"), then one or more digits; overflow is an error.             *)
(***************************************************************************)
AllDigits(s) == \A i \in 1..Len(s) : IsDigit(s[i])
CharsToMag(s) == StripZeros([i \in 1..Len(s) |-> DigitVal(s[i])])

\* digits of an unsigned literal: None when the text is no such literal
UnsignedDigits(s) ==
    LET body == IF Len(s) > 0 /\ s[1] = "+" THEN Tail(s) ELSE s
    IN  IF Len(body) = 0 \/ ~AllDigits(body) THEN None ELSE Some(CharsToMag(body))

\* parse::<u8> that clamps a literal above 255 to 255
ParseU8_saturating(s) ==
    LET d == UnsignedDigits(s)
    IN  IF IsNone(d) THEN None
        ELSE IF MagLeq(Unwrap(d), U8_MAX_MAG) THEN Some(MagToNat(Unwrap(d))) ELSE Some(U8_MAX)

ParseU8(s) ==
    LET d == UnsignedDigits(s)
    IN  IF IsNone(d) \/ ~MagLeq(Unwrap(d), U8_MAX_MAG) THEN None
        ELSE Some(MagToNat(Unwrap(d)))

\* u32 values stay magnitudes
ParseU32(s) ==
    LET d == UnsignedDigits(s)
    IN  IF IsNone(d) \/ ~MagLeq(Unwrap(d), U32_MAX_MAG) THEN None
        ELSE d

ParseI32(s) ==
    LET neg == Len(s) > 0 /\ s[1] = "-"
        body == IF Len(s) > 0 /\ s[1] \in {"+", "-"} THEN Tail(s) ELSE s
    IN  IF Len(body) = 0 \/ ~AllDigits(body) THEN None
        ELSE LET mag == CharsToMag(body)
             IN  IF neg
                 THEN IF MagLeq(mag, I32_MIN_MAG) THEN Some(MagToNeg(mag)) ELSE None
                 ELSE IF MagLeq(mag, I32_MAX_MAG) THEN Some(MagToNat(mag)) ELSE None

\* i64::from(u32) and u32::try_from(i64): an i64 is a sign and a magnitude
I64FromU32(m) == [neg |-> FALSE, mag |-> m]
\* u32::try_from(i64) that takes the magnitude of a negative value
U32TryFromI64_magnitude(x) ==
    IF MagLeq(x.mag, U32_MAX_MAG) THEN Some(x.mag) ELSE None

U32TryFromI64(x) ==
    IF (~x.neg \/ x.mag = <<0>>) /\ MagLeq(x.mag, U32_MAX_MAG) THEN Some(x.mag) ELSE None
UnwrapOr(o, d) == IF IsSome(o) THEN Unwrap(o) ELSE d
MinOf(S) == CHOOSE m \in S : \A x \in S : m <= x

(***************************************************************************)
(* Status and its text encoding (model.rs).                                *)
(***************************************************************************)
Applied == [tag |-> "Applied", n |-> 0]
Rejected == [tag |-> "Rejected", n |-> 0]
Interview(round) == [tag |-> "Interview", n |-> round]
Offer(amount) == [tag |-> "Offer", n |-> amount]

\* derive(Default) with #[default] on Applied
StatusDefault == Applied
\* derive(Ord): the variants in declaration order, then the payload
Discriminant(s) ==
    CASE s.tag = "Applied" -> 0
      [] s.tag = "Interview" -> 1
      [] s.tag = "Offer" -> 2
      [] s.tag = "Rejected" -> 3
IntCmp(x, y) == IF x < y THEN "Less" ELSE IF x > y THEN "Greater" ELSE "Equal"
\* comparison that looks at the payload before the variant
status_cmp_payload_first(a, b) ==
    IF a.n # b.n THEN IntCmp(a.n, b.n)
    ELSE IntCmp(Discriminant(a), Discriminant(b))
status_cmp(a, b) ==
    IF Discriminant(a) # Discriminant(b) THEN IntCmp(Discriminant(a), Discriminant(b))
    ELSE IntCmp(a.n, b.n)

AppliedText == <<"a", "p", "p", "l", "i", "e", "d">>
RejectedText == <<"r", "e", "j", "e", "c", "t", "e", "d">>
InterviewPrefix == <<"i", "n", "t", "e", "r", "v", "i", "e", "w", ":">>
OfferPrefix == <<"o", "f", "f", "e", "r", ":">>

StartsWith(s, p) == Len(s) >= Len(p) /\ SubSeq(s, 1, Len(p)) = p
StripPrefix(s, p) == SubSeq(s, Len(p) + 1, Len(s))

\* to_db_string with the amount of an offer written without its sign
to_db_string_unsigned(s) ==
    CASE s.tag = "Applied" -> AppliedText
      [] s.tag = "Interview" -> InterviewPrefix \o FmtNat(s.n)
      [] s.tag = "Offer" -> OfferPrefix \o (IF s.n < 0 THEN Tail(FmtInt(s.n)) ELSE FmtInt(s.n))
      [] s.tag = "Rejected" -> RejectedText

to_db_string(s) ==
    CASE s.tag = "Applied" -> AppliedText
      [] s.tag = "Interview" -> InterviewPrefix \o FmtNat(s.n)
      [] s.tag = "Offer" -> OfferPrefix \o FmtInt(s.n)
      [] s.tag = "Rejected" -> RejectedText

from_db_string(s) ==
    IF s = AppliedText THEN Ok(Applied)
    ELSE IF s = RejectedText THEN Ok(Rejected)
    ELSE IF StartsWith(s, InterviewPrefix) THEN
        LET round_str == StripPrefix(s, InterviewPrefix)
            round == ParseU8(round_str)
        IN  IF IsSome(round) THEN Ok(Interview(Unwrap(round)))
            ELSE Err(<<"Invalid interview round: ", round_str>>)
    ELSE IF StartsWith(s, OfferPrefix) THEN
        LET amount_str == StripPrefix(s, OfferPrefix)
            amount == ParseI32(amount_str)
        IN  IF IsSome(amount) THEN Ok(Offer(Unwrap(amount)))
            ELSE Err(<<"Invalid offer amount: ", amount_str>>)
    ELSE Err(<<"Unknown status: ", s>>)

(***************************************************************************)
(* Calendar dates (time::Date) and their texts.  insert_job and update_job *)
(* store Date::to_string; row_to_job_application reads the text back with  *)
(* Date::parse(.., Iso8601::DATE).                                         *)
(***************************************************************************)
IsLeap(y) == y % 4 = 0 /\ (y % 100 # 0 \/ y % 400 = 0)
DaysInMonth(y, m) ==
    IF m = 2 THEN (IF IsLeap(y) THEN 29 ELSE 28)
    ELSE IF m \in {4, 6, 9, 11} THEN 30 ELSE 31
DaysInYear(y) == IF IsLeap(y) THEN 366 ELSE 365
MkDate(y, m, d) == [year |-> y, month |-> m, day |-> d]
IsValidDate(dt) ==
    /\ dt.month \in 1..12
    /\ dt.day >= 1
    /\ dt.day <= DaysInMonth(dt.year, dt.month)

RECURSIVE ZeroPad(_, _)
ZeroPad(s, width) == IF Len(s) >= width THEN s ELSE ZeroPad(<<"0">> \o s, width)
Abs(n) == IF n < 0 THEN -n ELSE n

\* Display for Date: a year in 0..9999 is written with four digits; any
\* other year is written with its sign and at least four digits
DateToString(dt) ==
    LET y == dt.year
        digits == ZeroPad(FmtNat(Abs(y)), 4)
        ytext == IF y >= 0 /\ y < 10000 THEN digits
                 ELSE (IF y < 0 THEN <<"-">> ELSE <<"+">>) \o digits
    IN  ytext \o <<"-">> \o ZeroPad(FmtNat(dt.month), 2)
              \o <<"-">> \o ZeroPad(FmtNat(dt.day), 2)

\* exactly n digits at the front of s: their value, or None
TakeDigits(s, n) ==
    IF Len(s) >= n /\ AllDigits(SubSeq(s, 1, n))
    THEN Some(MagToNat(CharsToMag(SubSeq(s, 1, n)))) ELSE None
Drop(s, n) == SubSeq(s, n + 1, Len(s))

RECURSIVE OrdinalToDate(_, _, _)
\* the date that is day number o of year y, counting months from m
OrdinalToDate(y, m, o) ==
    IF o <= DaysInMonth(y, m) THEN MkDate(y, m, o)
    ELSE OrdinalToDate(y, m + 1, o - DaysInMonth(y, m))

\* The ISO 8601 date parser: a year of four digits, or a sign and six
\* digits; then month and day ("-MM-DD" or "MMDD") or a day of the year
\* ("-DDD" or "DDD"); nothing may follow.  The week form ("Www-D") is not
\* modelled: the texts of this model never contain the letter W.
ParseDate(s) ==
    LET signed == Len(s) > 0 /\ s[1] \in {"+", "-"}
        ydigits == IF signed THEN TakeDigits(Tail(s), 6) ELSE TakeDigits(s, 4)
        afterYear == IF signed THEN Drop(s, 7) ELSE Drop(s, 4)
    IN  IF IsNone(ydigits) THEN None
        ELSE
        LET year == IF signed /\ s[1] = "-" THEN -Unwrap(ydigits) ELSE Unwrap(ydigits)
            extended == Len(afterYear) > 0 /\ afterYear[1] = "-"
            rest == IF extended THEN Tail(afterYear) ELSE afterYear
            month == TakeDigits(rest, 2)
            afterMonth == Drop(rest, 2)
            sepOk == ~extended \/ (Len(afterMonth) > 0 /\ afterMonth[1] = "-")
            dayText == IF extended THEN Drop(afterMonth, 1) ELSE afterMonth
            day == TakeDigits(dayText, 2)
            monthDay == /\ IsSome(month)
                        /\ Unwrap(month) \in 1..12
                        /\ sepOk
                        /\ IsSome(day)
                        /\ Unwrap(day) >= 1
            ordinal == TakeDigits(rest, 3)
        IN  IF monthDay THEN
                LET dt == MkDate(year, Unwrap(month), Unwrap(day))
                IN  IF Len(dayText) = 2 /\ IsValidDate(dt) THEN Some(dt) ELSE None
            ELSE IF IsSome(ordinal) /\ Unwrap(ordinal) >= 1 THEN
                IF Len(rest) = 3 /\ Unwrap(ordinal) <= DaysInYear(year)
                THEN Some(OrdinalToDate(year, 1, Unwrap(ordinal))) ELSE None
            ELSE None

(***************************************************************************)
(* File paths (PathBuf).  A path is a sequence of units; the unit "\\xFF"  *)
(* is a byte that is not valid UTF-8 and "U+FFFD" is the replacement       *)
(* character.  Path::to_string_lossy replaces every invalid unit by the    *)
(* replacement character; PathBuf::from keeps a text as it is.             *)
(***************************************************************************)
InvalidUnit == "\\xFF"
ReplacementChar == "U+FFFD"
to_string_lossy(p) ==
    [i \in 1..Len(p) |-> IF p[i] = InvalidUnit THEN ReplacementChar ELSE p[i]]
PathBufFrom(t) == t

(***************************************************************************)
(* JobApplication (model.rs) and the row that stores it (db.rs).           *)
(***************************************************************************)
SalaryRange(min, max) == [min |-> min, max |-> max]
JobApplication(id, date, cv, company, position, status, location, salary) ==
    [id |-> id, date |-> date, cv |-> cv, company |-> company,
     position |-> position, status |-> status, location |-> location,
     salary |-> salary]

\* DbError
NotFound(id) == [kind |-> "NotFound", id |-> id, msg |-> << >>]
InvalidStatus(msg) == [kind |-> "InvalidStatus", id |-> 0, msg |-> msg]

\* the column values insert_job and update_job bind for a job; created_at
\* is the column the store fills in
\* binding that puts the smaller salary bound first
BindJob_ordered(job, created_at) ==
    LET swap == MagLess(job.salary.max, job.salary.min)
    IN  [date |-> IF IsSome(job.date) THEN Some(DateToString(Unwrap(job.date))) ELSE None,
         cv_path |-> IF IsSome(job.cv) THEN Some(to_string_lossy(Unwrap(job.cv))) ELSE None,
         company |-> job.company,
         position |-> job.position,
         status |-> to_db_string(job.status),
         location |-> job.location,
         salary_min |-> I64FromU32(IF swap THEN job.salary.max ELSE job.salary.min),
         salary_max |-> I64FromU32(IF swap THEN job.salary.min ELSE job.salary.max),
         created_at |-> created_at]
BindJob(job, created_at) ==
    [date |-> IF IsSome(job.date) THEN Some(DateToString(Unwrap(job.date))) ELSE None,
     cv_path |-> IF IsSome(job.cv) THEN Some(to_string_lossy(Unwrap(job.cv))) ELSE None,
     company |-> job.company,
     position |-> job.position,
     status |-> to_db_string(job.status),
     location |-> job.location,
     salary_min |-> I64FromU32(job.salary.min),
     salary_max |-> I64FromU32(job.salary.max),
     created_at |-> created_at]

\* row_to_job_application that reads a date it cannot parse as no date
row_to_job_application_lenient(id, row) ==
    LET date == IF IsSome(row.date) THEN ParseDate(Unwrap(row.date)) ELSE None
        cv == IF IsSome(row.cv_path) THEN Some(PathBufFrom(Unwrap(row.cv_path))) ELSE None
        status == from_db_string(row.status)
        salary == SalaryRange(UnwrapOr(U32TryFromI64(row.salary_min), <<0>>),
                              UnwrapOr(U32TryFromI64(row.salary_max), <<0>>))
    IN  IF ~status.ok THEN Err(InvalidStatus(status.err))
        ELSE OkJob(JobApplication(Some(id), date, cv, row.company, row.position,
                                  status.val, row.location, salary))

row_to_job_application(id, row) ==
    LET date == IF IsSome(row.date) THEN ParseDate(Unwrap(row.date)) ELSE None
        cv == IF IsSome(row.cv_path) THEN Some(PathBufFrom(Unwrap(row.cv_path))) ELSE None
        status == from_db_string(row.status)
        salary == SalaryRange(UnwrapOr(U32TryFromI64(row.salary_min), <<0>>),
                              UnwrapOr(U32TryFromI64(row.salary_max), <<0>>))
    IN  IF IsSome(row.date) /\ IsNone(date)
        THEN Err(InvalidStatus(<<"Invalid date format: ", Unwrap(row.date)>>))
        ELSE IF ~status.ok THEN Err(InvalidStatus(status.err))
        ELSE OkJob(JobApplication(Some(id), date, cv, row.company, row.position,
                                  status.val, row.location, salary))

(***************************************************************************)
(* EditForm: every field is the text the user typed; status is the         *)
(* StatusSelection.  to_job checks date, salary_min, salary_max and the    *)
(* payload of the selected status in this order and returns the first      *)
(* error.                                                                  *)
(***************************************************************************)
EditForm(company, position, location, date, salary_min, salary_max, status, cv_path, interview_round, offer_amount) ==
    [company |-> company, position |-> position, location |-> location, date |-> date,
     salary_min |-> salary_min, salary_max |-> salary_max, status |-> status,
     cv_path |-> cv_path, interview_round |-> interview_round,
     offer_amount |-> offer_amount]
EditFormNew == EditForm("", "", "", << >>, << >>, << >>, "Applied", << >>, <<"1">>, << >>)

InvalidDateMsg == "Invalid date format. Use YYYY-MM-DD"
InvalidMinMsg == "Invalid minimum salary"
InvalidMaxMsg == "Invalid maximum salary"
InvalidRoundMsg == "Invalid interview round"
InvalidOfferMsg == "Invalid offer amount"

\* to_job that takes 0 for a salary it cannot parse
to_job_default_salary(f, id) ==
    LET date == IF f.date = << >> THEN None ELSE ParseDate(f.date)
        salary_min == ParseU32(f.salary_min)
        salary_max == ParseU32(f.salary_max)
        round == ParseU8(f.interview_round)
        amount == ParseI32(f.offer_amount)
        cv == IF f.cv_path = << >> THEN None ELSE Some(PathBufFrom(f.cv_path))
    IN  IF f.date # << >> /\ IsNone(date) THEN Err(InvalidDateMsg)
        ELSE IF f.status = "Interview" /\ IsNone(round) THEN Err(InvalidRoundMsg)
        ELSE IF f.status = "Offer" /\ IsNone(amount) THEN Err(InvalidOfferMsg)
        ELSE OkJob(JobApplication(id, date, cv, f.company, f.position,
                     CASE f.status = "Applied" -> Applied
                       [] f.status = "Interview" -> Interview(Unwrap(round))
                       [] f.status = "Offer" -> Offer(Unwrap(amount))
                       [] f.status = "Rejected" -> Rejected,
                     f.location,
                     SalaryRange(UnwrapOr(salary_min, <<0>>), UnwrapOr(salary_max, <<0>>))))

to_job(f, id) ==
    LET date == IF f.date = << >> THEN None ELSE ParseDate(f.date)
        salary_min == ParseU32(f.salary_min)
        salary_max == ParseU32(f.salary_max)
        round == ParseU8(f.interview_round)
        amount == ParseI32(f.offer_amount)
        cv == IF f.cv_path = << >> THEN None ELSE Some(PathBufFrom(f.cv_path))
    IN  IF f.date # << >> /\ IsNone(date) THEN Err(InvalidDateMsg)
        ELSE IF IsNone(salary_min) THEN Err(InvalidMinMsg)
        ELSE IF IsNone(salary_max) THEN Err(InvalidMaxMsg)
        ELSE IF f.status = "Interview" /\ IsNone(round) THEN Err(InvalidRoundMsg)
        ELSE IF f.status = "Offer" /\ IsNone(amount) THEN Err(InvalidOfferMsg)
        ELSE OkJob(JobApplication(id, date, cv, f.company, f.position,
                     CASE f.status = "Applied" -> Applied
                       [] f.status = "Interview" -> Interview(Unwrap(round))
                       [] f.status = "Offer" -> Offer(Unwrap(amount))
                       [] f.status = "Rejected" -> Rejected,
                     f.location, SalaryRange(Unwrap(salary_min), Unwrap(salary_max))))

\* EditForm::from_job: the texts the form shows for a record
from_job(job) ==
    EditForm(job.company, job.position, job.location,
             IF IsSome(job.date) THEN DateToString(Unwrap(job.date)) ELSE << >>,
             FmtMag(job.salary.min), FmtMag(job.salary.max),
             job.status.tag,
             IF IsSome(job.cv) THEN to_string_lossy(Unwrap(job.cv)) ELSE << >>,
             IF job.status.tag = "Interview" THEN FmtNat(job.status.n) ELSE << >>,
             IF job.status.tag = "Offer" THEN FmtInt(job.status.n) ELSE << >>)

(***************************************************************************)
(* JobTrackerApp::update, one operator for each message.  a is the         *)
(* application state; a handler returns the state after the message and    *)
(* the tasks it starts.  A task is the write call it begins with (or none  *)
(* for load_jobs) and whether it fetches the list after the write.         *)
(***************************************************************************)
\* a message text: Display of a DbError, or a validation message
Text(s) == [text |-> s, id |-> 0, msg |-> << >>]
to_string(e) ==
    CASE e.kind = "NotFound" -> [text |-> "Job application not found with id: ", id |-> e.id, msg |-> << >>]
      [] e.kind = "InvalidStatus" -> [text |-> "Invalid status format: ", id |-> 0, msg |-> e.msg]
      [] e.kind = "Connection" -> [text |-> "Database connection error: ", id |-> 0, msg |-> e.msg]

JobTrackerAppNew ==
    [database |-> FALSE, jobs |-> << >>, selected_job_id |-> None, editing_job_id |-> None,
     edit_form |-> EditFormNew, error_message |-> None]

Task(kind, op, job, id, fetches) ==
    [kind |-> kind, pc |-> IF op = "none" THEN "fetch" ELSE "write",
     write |-> [op |-> op, job |-> job, id |-> id], fetches |-> fetches,
     calls |-> << >>, msg |-> OkJobs(<< >>)]
LoadJobs == Task("load_jobs", "none", None, 0, TRUE)
\* the task init starts: initialize_database
InitTask == [Task("initialize_database", "none", None, 0, FALSE) EXCEPT !.pc = "init"]

on_database_initialized(a) ==
    [app |-> [a EXCEPT !.database = TRUE, !.error_message = None], tasks |-> <<LoadJobs>>]

on_jobs_loaded_closes(a, result) ==
    [app |-> IF result.ok THEN [a EXCEPT !.jobs = result.jobs, !.error_message = None]
             ELSE [a EXCEPT !.error_message = Some(result.err), !.editing_job_id = None],
     tasks |-> << >>]
on_jobs_loaded(a, result) ==
    [app |-> IF result.ok THEN [a EXCEPT !.jobs = result.jobs, !.error_message = None]
             ELSE [a EXCEPT !.error_message = Some(result.err)],
     tasks |-> << >>]

DefaultDate == <<"2", "0", "2", "4", "-", "0", "1", "-", "0", "1">>
on_add_new_job(a) ==
    [app |-> IF IsNone(a.editing_job_id)
             THEN [a EXCEPT !.editing_job_id = Some(0),
                            !.edit_form = [EditFormNew EXCEPT !.date = DefaultDate]]
             ELSE a,
     tasks |-> << >>]

Listed(a, id) == {i \in 1..Len(a.jobs) : a.jobs[i].id = Some(id)}
on_edit_job(a, id) ==
    [app |-> IF Listed(a, id) # {}
             THEN [a EXCEPT !.editing_job_id = Some(id),
                            !.edit_form = from_job(a.jobs[MinOf(Listed(a, id))])]
             ELSE a,
     tasks |-> << >>]

\* SaveJob that hands the id of the message to the record also for a new job
on_save_job_keeps_id(a, id) ==
    LET r == to_job(a.edit_form, Some(id))
    IN  IF ~r.ok THEN [app |-> [a EXCEPT !.error_message = Some(Text(r.err))], tasks |-> << >>]
        ELSE [app |-> [a EXCEPT !.editing_job_id = None, !.error_message = None],
              tasks |-> IF ~a.database THEN << >>
                        ELSE <<Task("SaveJob", IF id = 0 THEN "insert_job" ELSE "update_job",
                                    Some(r.job), 0, TRUE)>>]

\* SaveJob that closes the edit session also when the form does not convert
on_save_job_closes(a, id) ==
    LET r == to_job(a.edit_form, IF id = 0 THEN None ELSE Some(id))
    IN  IF ~r.ok THEN [app |-> [a EXCEPT !.editing_job_id = None,
                                         !.error_message = Some(Text(r.err))],
                       tasks |-> << >>]
        ELSE [app |-> [a EXCEPT !.editing_job_id = None, !.error_message = None],
              tasks |-> IF ~a.database THEN << >>
                        ELSE <<Task("SaveJob", IF id = 0 THEN "insert_job" ELSE "update_job",
                                    Some(r.job), 0, TRUE)>>]

on_save_job(a, id) ==
    LET r == to_job(a.edit_form, IF id = 0 THEN None ELSE Some(id))
    IN  IF ~r.ok THEN [app |-> [a EXCEPT !.error_message = Some(Text(r.err))], tasks |-> << >>]
        ELSE [app |-> [a EXCEPT !.editing_job_id = None, !.error_message = None],
              tasks |-> IF ~a.database THEN << >>
                        ELSE <<Task("SaveJob", IF id = 0 THEN "insert_job" ELSE "update_job",
                                    Some(r.job), 0, TRUE)>>]

on_cancel_edit(a) == [app |-> [a EXCEPT !.editing_job_id = None], tasks |-> << >>]

on_delete_job(a, id) ==
    [app |-> [a EXCEPT !.selected_job_id = None],
     tasks |-> IF a.database THEN <<Task("DeleteJob", "delete_job", None, id, TRUE)>> ELSE << >>]

on_clear_database(a) ==
    [app |-> a,
     tasks |-> IF a.database THEN <<Task("ClearDatabase", "clear_all", None, 0, FALSE)>> ELSE << >>]

on_select_job(a, id) == [app |-> [a EXCEPT !.selected_job_id = id], tasks |-> << >>]

SetFormField(a, fields) == [app |-> [a EXCEPT !.edit_form = fields], tasks |-> << >>]

(***************************************************************************)
(* Database is a value that holds a pool; pls maps each pool to the table  *)
(* it reaches.  Cloning a Database clones the pool handle, which is a      *)
(* reference to the same pool.                                             *)
(***************************************************************************)
\* a clone that opens a pool of its own on a copy of the data
database_clone_copies(pls, pool) ==
    [pools |-> Append(pls, pls[pool]), pool |-> Len(pls) + 1]

database_clone(pls, pool) == [pools |-> pls, pool |-> pool]

(***************************************************************************)
(* Connection targets and the file system.  A path is the sequence of its  *)
(* components, relative to the working directory; a target is the scheme   *)
(* followed by the path, or by the in-memory marker.  dirs is the set of   *)
(* directories that exist besides the working directory, files maps the    *)
(* path of each database file to its content.                              *)
(***************************************************************************)
Scheme == "sqlite:"
MemoryUrl == <<Scheme, ":memory:">>
FileUrl(path) == <<Scheme>> \o path
\* Path::parent: the path without its last component
Parent(path) == SubSeq(path, 1, Len(path) - 1)
\* the directories create_dir_all(dir) makes sure of: dir and all above it
Ancestors(dir) == {SubSeq(dir, 1, k) : k \in 1..Len(dir)}
IoError == [kind |-> "Connection", id |-> 0, msg |-> <<"Io">>]
EmptyFs == [dirs |-> {}, files |-> << >>]

(***************************************************************************)
(* The store operations as functions of the table.  rws is the table       *)
(* job_applications (a function from id to row), sq the AUTOINCREMENT      *)
(* counter kept in sqlite_sequence, now the second CURRENT_TIMESTAMP       *)
(* reads.  Each returns the table after the statement and the result.      *)
(***************************************************************************)
MaxOf(S) == CHOOSE m \in S : \A x \in S : x <= m
\* AUTOINCREMENT: one more than the largest rowid ever used
\* the next rowid of a table without AUTOINCREMENT: one above the largest
\* rowid in the table
NextRowid_reuses(rws, sq) == MaxOf({0} \cup DOMAIN rws) + 1

NextRowid(rws, sq) == MaxOf({sq} \cup DOMAIN rws) + 1

\* create_schema that drops the table before it creates it
create_schema_recreate(exists, rws, sq) ==
    [exists |-> TRUE, rows |-> << >>, seq |-> 0, res |-> OkUnit]

\* CREATE TABLE IF NOT EXISTS on a database file: exists tells whether the
\* file holds the table, rws and sq are its rows and AUTOINCREMENT counter
create_schema(exists, rws, sq) ==
    IF exists THEN [exists |-> TRUE, rows |-> rws, seq |-> sq, res |-> OkUnit]
    ELSE [exists |-> TRUE, rows |-> << >>, seq |-> 0, res |-> OkUnit]

\* ensure_database_directory with create_dir in place of create_dir_all
ensure_database_directory_one_level(dirs, url) ==
    IF url = MemoryUrl THEN [dirs |-> dirs, res |-> OkUnit]
    ELSE IF Len(url) > 0 /\ url[1] = Scheme THEN
        LET parent == Parent(Tail(url))
        IN  IF Len(parent) > 0 /\ parent \notin dirs
            THEN IF Len(parent) > 1 /\ Parent(parent) \notin dirs
                 THEN [dirs |-> dirs, res |-> Err(IoError)]
                 ELSE [dirs |-> dirs \cup {parent}, res |-> OkUnit]
            ELSE [dirs |-> dirs, res |-> OkUnit]
    ELSE [dirs |-> dirs, res |-> OkUnit]

ensure_database_directory(dirs, url) ==
    IF url = MemoryUrl THEN [dirs |-> dirs, res |-> OkUnit]
    ELSE IF Len(url) > 0 /\ url[1] = Scheme THEN
        LET parent == Parent(Tail(url))
        IN  IF Len(parent) > 0 /\ parent \notin dirs
            THEN [dirs |-> dirs \cup Ancestors(parent), res |-> OkUnit]
            ELSE [dirs |-> dirs, res |-> OkUnit]
    ELSE [dirs |-> dirs, res |-> OkUnit]

\* Database::new: the directory, then the connection (which creates the
\* file when it is missing and fails when its directory is), then the
\* schema.  store is the table and counter the new handle reaches.
database_new(f, url) ==
    LET e == ensure_database_directory(f.dirs, url)
        nostore == [rows |-> << >>, seq |-> 0]
    IN  IF ~e.res.ok THEN [fs |-> f, store |-> nostore, res |-> e.res]
        ELSE IF url = MemoryUrl THEN
            LET c == create_schema(FALSE, << >>, 0)
            IN  [fs |-> f, store |-> [rows |-> c.rows, seq |-> c.seq], res |-> c.res]
        ELSE
            LET path == Tail(url)
                parent == Parent(path)
                had == path \in DOMAIN f.files
                c == IF had THEN create_schema(TRUE, f.files[path].rows, f.files[path].seq)
                     ELSE create_schema(FALSE, << >>, 0)
                content == [rows |-> c.rows, seq |-> c.seq]
            IN  IF Len(parent) > 0 /\ parent \notin e.dirs
                THEN [fs |-> [f EXCEPT !.dirs = e.dirs], store |-> nostore, res |-> Err(IoError)]
                ELSE [fs |-> [dirs |-> e.dirs,
                              files |-> [q \in DOMAIN f.files \cup {path} |->
                                            IF q = path THEN content ELSE f.files[q]]],
                      store |-> content, res |-> c.res]

\* insert_job that binds the id of its argument when there is one
insert_job_binds_id(rws, sq, now, job) ==
    LET id == IF IsSome(job.id) THEN Unwrap(job.id) ELSE NextRowid(rws, sq)
    IN  [rows |-> [k \in DOMAIN rws \cup {id} |->
                      IF k = id THEN BindJob(job, now) ELSE rws[k]],
         seq |-> MaxOf({sq, id}), res |-> OkId(id)]

insert_job(rws, sq, now, job) ==
    LET id == NextRowid(rws, sq)
    IN  [rows |-> (id :> BindJob(job, now)) @@ rws, seq |-> id, res |-> OkId(id)]

\* ORDER BY created_at DESC: every order of the ids in which created_at
\* never increases; rows created in the same second come in any order
RowOrders(rws) ==
    LET n == Cardinality(DOMAIN rws)
    IN  {o \in [1..n -> DOMAIN rws] :
            /\ \A i, j \in 1..n : i # j => o[i] # o[j]
            /\ \A i, j \in 1..n : i < j => rws[o[i]].created_at >= rws[o[j]].created_at}

\* get_all_jobs that leaves out the rows that do not decode
CollectJobs_skips(rws, order) ==
    LET decoded == [i \in 1..Len(order) |-> row_to_job_application(order[i], rws[order[i]])]
        good == SelectSeq(decoded, LAMBDA d : d.ok)
    IN  OkJobs([i \in 1..Len(good) |-> good[i].job])

\* the loop of get_all_jobs over the rows in one order: the first row that
\* does not decode ends the call with its error
CollectJobs(rws, order) ==
    LET decoded == [i \in 1..Len(order) |-> row_to_job_application(order[i], rws[order[i]])]
        bad == {i \in 1..Len(order) : ~decoded[i].ok}
    IN  IF bad # {} THEN decoded[CHOOSE i \in bad : \A k \in bad : i <= k]
        ELSE OkJobs([i \in 1..Len(order) |-> decoded[i].job])

\* the results get_all_jobs can return
get_all_jobs(rws) == {CollectJobs(rws, o) : o \in RowOrders(rws)}

get_job_by_id(rws, id) ==
    IF id \in DOMAIN rws THEN row_to_job_application(id, rws[id])
    ELSE Err(NotFound(id))

\* update_job without the check of rows_affected
update_job_unchecked(rws, job) ==
    IF IsNone(job.id) THEN [rows |-> rws, res |-> Err(NotFound(0))]
    ELSE LET id == Unwrap(job.id)
             after == [k \in DOMAIN rws |->
                          IF k = id THEN BindJob(job, rws[k].created_at) ELSE rws[k]]
         IN  [rows |-> after, res |-> OkUnit]

\* update_job whose UPDATE reaches every row once the row of the id exists
update_job_every_row(rws, job) ==
    IF IsNone(job.id) THEN [rows |-> rws, res |-> Err(NotFound(0))]
    ELSE LET id == Unwrap(job.id)
             rows_affected == IF id \in DOMAIN rws THEN 1 ELSE 0
             after == [k \in DOMAIN rws |-> BindJob(job, rws[k].created_at)]
         IN  IF rows_affected = 0 THEN [rows |-> rws, res |-> Err(NotFound(id))]
             ELSE [rows |-> after, res |-> OkUnit]

\* update_job that runs the UPDATE without its WHERE clause for a job
\* that has no id
update_job_no_where(rws, job) ==
    LET hit == IF IsNone(job.id) THEN DOMAIN rws ELSE {Unwrap(job.id)} \cap DOMAIN rws
        after == [k \in DOMAIN rws |->
                     IF k \in hit THEN BindJob(job, rws[k].created_at) ELSE rws[k]]
    IN  IF hit = {} THEN [rows |-> after, res |-> Err(NotFound(UnwrapOr(job.id, 0)))]
        ELSE [rows |-> after, res |-> OkUnit]

update_job(rws, job) ==
    IF IsNone(job.id) THEN [rows |-> rws, res |-> Err(NotFound(0))]
    ELSE LET id == Unwrap(job.id)
             rows_affected == IF id \in DOMAIN rws THEN 1 ELSE 0
             after == [k \in DOMAIN rws |->
                          IF k = id THEN BindJob(job, rws[k].created_at) ELSE rws[k]]
         IN  IF rows_affected = 0 THEN [rows |-> after, res |-> Err(NotFound(id))]
             ELSE [rows |-> after, res |-> OkUnit]

\* delete_job whose statement matches no row
delete_job_keeps_row(rws, id) ==
    LET rows_affected == IF id \in DOMAIN rws THEN 1 ELSE 0
    IN  IF rows_affected = 0 THEN [rows |-> rws, res |-> Err(NotFound(id))]
        ELSE [rows |-> rws, res |-> OkUnit]

\* delete_job without the check of rows_affected
delete_job_unchecked(rws, id) ==
    [rows |-> [k \in DOMAIN rws \ {id} |-> rws[k]], res |-> OkUnit]

delete_job(rws, id) ==
    LET rows_affected == IF id \in DOMAIN rws THEN 1 ELSE 0
        after == [k \in DOMAIN rws \ {id} |-> rws[k]]
    IN  IF rows_affected = 0 THEN [rows |-> after, res |-> Err(NotFound(id))]
        ELSE [rows |-> after, res |-> OkUnit]

\* clear_all with the zero-rows check of delete_job
clear_all_checked(rws) ==
    IF DOMAIN rws = {} THEN [rows |-> << >>, res |-> Err(NotFound(0))]
    ELSE [rows |-> << >>, res |-> OkUnit]

clear_all(rws) == [rows |-> << >>, res |-> OkUnit]

(***************************************************************************)
(* Bounds and the inputs the operations are called with.                   *)
(***************************************************************************)
MaxId == 2
MaxClock == 1

\* the fields of a job other than its id
JobBodies ==
    { JobApplication(None, Some(MkDate(2024, 1, 15)), None, "A", "P",
                     Applied, "L", SalaryRange(<<0>>, <<0>>)),
      JobApplication(None, None, Some(<<"c", "v">>), "B", "Q",
                     Interview(2), "M", SalaryRange(<<8, 0, 0, 0, 0>>, <<1, 2, 0, 0, 0, 0>>)),
      JobApplication(None, Some(MkDate(2024, 2, 29)), Some(<<"c", "v">>), "A", "Q",
                     Offer(-5), "L", SalaryRange(U32_MAX_MAG, <<0>>)),
      JobApplication(None, None, None, "", "", Rejected, "", SalaryRange(<<0>>, <<0>>)),
      JobApplication(None, Some(MkDate(-44, 3, 15)), Some(<<"c", InvalidUnit>>), "A", "P",
                     Applied, "L", SalaryRange(<<0>>, <<0>>)) }

\* identifiers passed by callers: 0 and MaxId + 1 never name a row
IdArgs == 0..(MaxId + 1)
WithId(job, id) == [job EXCEPT !.id = id]
Jobs == {WithId(b, i) : b \in JobBodies, i \in {None} \cup {Some(k) : k \in IdArgs}}
\* insert_job is called with a job that has no id or carries the id 1
NewJobs == {WithId(b, i) : b \in JobBodies, i \in {None, Some(1)}}

\* the statuses the encoding is exercised on: both plain variants, every
\* interview round, and offers around zero and at both ends of i32
OfferSamples == {I32_MIN, I32_MIN + 1, -75000, -10, -9, -1, 0, 1, 9, 10, 99, 100,
                 75000, 95000, I32_MAX - 1, I32_MAX}
Statuses == {Applied, Rejected} \cup {Interview(n) : n \in 0..U8_MAX}
                \cup {Offer(a) : a \in OfferSamples}

\* what can follow "interview:" and "offer:" in a stored text
Suffixes ==
    { <<>>,
      <<"0">>,
      <<"3">>,
      <<"0", "3">>,
      <<"+", "3">>,
      <<"-", "3">>,
      <<"-", "0">>,
      <<"+", "0">>,
      <<"2", "5", "5">>,
      <<"2", "5", "6">>,
      <<"0", "2", "5", "5">>,
      <<"+", "2", "5", "5">>,
      <<"a">>,
      <<"3", "a">>,
      <<"a", "3">>,
      <<" ", "3">>,
      <<"3", " ">>,
      <<"+">>,
      <<"-">>,
      <<"+", "+", "3">>,
      <<"3", ".", "5">>,
      <<"7", "5", "0", "0", "0">>,
      <<"-", "7", "5", "0", "0", "0">>,
      <<"2", "1", "4", "7", "4", "8", "3", "6", "4", "7">>,
      <<"2", "1", "4", "7", "4", "8", "3", "6", "4", "8">>,
      <<"-", "2", "1", "4", "7", "4", "8", "3", "6", "4", "8">>,
      <<"-", "2", "1", "4", "7", "4", "8", "3", "6", "4", "9">>,
      <<"+", "2", "1", "4", "7", "4", "8", "3", "6", "4", "7">>,
      <<"0", "0", "0", "0", "2", "1", "4", "7", "4", "8", "3", "6", "4", "7">>,
      <<"9", "9", "9", "9", "9", "9", "9", "9", "9", "9", "9">> }

\* texts of no encoded shape, and the two plain ones
PlainTexts ==
    { <<>>,
      <<"a", "p", "p", "l", "i", "e", "d">>,
      <<"r", "e", "j", "e", "c", "t", "e", "d">>,
      <<"A", "p", "p", "l", "i", "e", "d">>,
      <<"R", "E", "J", "E", "C", "T", "E", "D">>,
      <<" ", "a", "p", "p", "l", "i", "e", "d">>,
      <<"a", "p", "p", "l", "i", "e", "d", " ">>,
      <<"r", "e", "j", "e", "c", "t", "e", "d", " ">>,
      <<"u", "n", "k", "n", "o", "w", "n">>,
      <<"i", "n", "t", "e", "r", "v", "i", "e", "w">>,
      <<"o", "f", "f", "e", "r">>,
      <<"I", "n", "t", "e", "r", "v", "i", "e", "w", ":", "1">>,
      <<"O", "F", "F", "E", "R", ":", "1">>,
      <<" ", "i", "n", "t", "e", "r", "v", "i", "e", "w", ":", "1">>,
      <<"i", "n", "t", "e", "r", "v", "i", "e", "w", " ", ":", "1">>,
      <<"o", "f", "f", "e", "r", ";", "1">>,
      <<"a", "p", "p", "l", "i", "e", "d", ":", "1">>,
      <<"r", "e", "j", "e", "c", "t", "e", "d", ":">> }

\* the texts from_db_string is exercised on
DecodeTexts ==
    PlainTexts \cup {InterviewPrefix \o x : x \in Suffixes} \cup {OfferPrefix \o x : x \in Suffixes}

\* date texts a row can hold: ISO 8601 dates in calendar and ordinal form,
\* and texts that are no date
DateTexts ==
    { <<"2", "0", "2", "4", "-", "0", "1", "-", "1", "5">>,
      <<"2", "0", "2", "4", "0", "1", "1", "5">>,
      <<"2", "0", "2", "4", "-", "0", "2", "-", "2", "9">>,
      <<"2", "0", "2", "4", "-", "0", "6", "0">>,
      <<"2", "0", "2", "4", "0", "6", "0">>,
      <<"2", "0", "2", "4", "-", "3", "6", "6">>,
      <<"+", "0", "0", "2", "0", "2", "4", "-", "0", "1", "-", "1", "5">>,
      <<"-", "0", "0", "0", "0", "4", "4", "-", "0", "3", "-", "1", "5">>,
      <<"2", "0", "2", "3", "-", "1", "2", "-", "3", "1">>,
      <<>>,
      <<"a", "b", "c">>,
      <<"2", "0", "2", "4", "-", "1", "3", "-", "0", "1">>,
      <<"2", "0", "2", "4", "-", "0", "0", "-", "1", "0">>,
      <<"2", "0", "2", "4", "-", "0", "2", "-", "3", "0">>,
      <<"2", "0", "2", "3", "-", "0", "2", "-", "2", "9">>,
      <<"2", "0", "2", "3", "-", "3", "6", "6">>,
      <<"2", "0", "2", "4", "-", "0", "0", "0">>,
      <<"1", "5", "/", "0", "1", "/", "2", "0", "2", "4">>,
      <<"2", "0", "2", "4", "/", "0", "1", "/", "1", "5">>,
      <<"2", "0", "2", "4", "-", "1", "-", "5">>,
      <<" ", "2", "0", "2", "4", "-", "0", "1", "-", "1", "5">>,
      <<"2", "0", "2", "4", "-", "0", "1", "-", "1", "5", " ">>,
      <<"2", "0", "2", "4", "-", "0", "1", "-", "1", "5", "T", "1", "0", ":", "0", "0", ":", "0", "0">>,
      <<"-", "0", "0", "4", "4", "-", "0", "3", "-", "1", "5">>,
      <<"2", "4", "-", "0", "1", "-", "1", "5">>,
      <<"2", "0", "2", "4", "-", "0", "1">>,
      <<"+", "2", "0", "2", "4", "-", "0", "1", "-", "1", "5">> }

\* 64-bit integers a salary column can hold, up to both ends of i64
I64Samples ==
    { [neg |-> FALSE, mag |-> <<0>>],
      [neg |-> FALSE, mag |-> <<1>>],
      [neg |-> FALSE, mag |-> <<8, 0, 0, 0, 0>>],
      [neg |-> FALSE, mag |-> <<4, 2, 9, 4, 9, 6, 7, 2, 9, 5>>],
      [neg |-> FALSE, mag |-> <<4, 2, 9, 4, 9, 6, 7, 2, 9, 6>>],
      [neg |-> TRUE, mag |-> <<1>>],
      [neg |-> TRUE, mag |-> <<8, 0, 0, 0, 0>>],
      [neg |-> FALSE, mag |-> <<9, 2, 2, 3, 3, 7, 2, 0, 3, 6, 8, 5, 4, 7, 7, 5, 8, 0, 7>>],
      [neg |-> TRUE, mag |-> <<9, 2, 2, 3, 3, 7, 2, 0, 3, 6, 8, 5, 4, 7, 7, 5, 8, 0, 8>>] }

\* the id of the row that is written behind the store's back
TamperId == 1

\* what an out-of-band writer puts into the row: a date text, a status
\* text, or a pair of salaries
TamperChoices ==
    {[date |-> Some(d), status |-> AppliedText, salary_min |-> I64FromU32(<<0>>),
      salary_max |-> I64FromU32(<<0>>)] : d \in DateTexts}
    \cup {[date |-> None, status |-> t, salary_min |-> I64FromU32(<<0>>),
           salary_max |-> I64FromU32(<<0>>)] : t \in DecodeTexts}
    \cup {[date |-> Some(d), status |-> t, salary_min |-> I64FromU32(<<0>>),
           salary_max |-> I64FromU32(<<0>>)] :
             d \in {<<"a", "b", "c">>, <<"2", "0", "2", "4", "-", "0", "6", "0">>},
             t \in {<<"u", "n", "k", "n", "o", "w", "n">>, InterviewPrefix \o <<"a">>}}
    \cup {[date |-> None, status |-> OfferPrefix \o <<"7">>, salary_min |-> lo, salary_max |-> hi] :
             lo \in I64Samples, hi \in I64Samples}

\* the records inserted before the row is tampered with
TamperJobs == {b \in JobBodies : b.company = "B" \/ b.company = ""}

\* what the user types into the form
FormDates ==
    { <<>>,
      <<"2", "0", "2", "4", "-", "0", "1", "-", "1", "5">>,
      <<"2", "0", "2", "4", "-", "0", "6", "0">>,
      <<"i", "n", "v", "a", "l", "i", "d", "-", "d", "a", "t", "e">>,
      <<"2", "0", "2", "4", "-", "0", "2", "-", "3", "0">>,
      <<"1", "5", "/", "0", "1", "/", "2", "0", "2", "4">> }
FormSalaryMins ==
    { <<>>,
      <<"5", "0", "0", "0", "0">>,
      <<"+", "5">>,
      <<"i", "n", "v", "a", "l", "i", "d">>,
      <<"4", "2", "9", "4", "9", "6", "7", "2", "9", "6">>,
      <<"-", "1">> }
FormSalaryMaxs ==
    { <<>>,
      <<"8", "0", "0", "0", "0">>,
      <<"4", "2", "9", "4", "9", "6", "7", "2", "9", "5">>,
      <<"8", "e", "4">> }
FormRounds ==
    { <<"1">>,
      <<>>,
      <<"2", "5", "6">>,
      <<"i", "n", "v", "a", "l", "i", "d">> }
FormOffers ==
    { <<>>,
      <<"7", "5", "0", "0", "0">>,
      <<"-", "5">>,
      <<"-", "2", "1", "4", "7", "4", "8", "3", "6", "4", "9">> }
FormCvPaths == {<< >>, <<"c", "v">>}
StatusSelections == {"Applied", "Interview", "Offer", "Rejected"}
\* the ids to_job is called with: none for a new record, or that of the row edited
FormIds == {None, Some(1)}

\* the Database values a window holds at a time
MaxHandles == 3

\* the directories a target names: none (a file in the working directory),
\* or a chain of up to MaxDepth levels under one of two roots
MaxDepth == 3
RECURSIVE Chain(_, _)
Chain(root, k) == IF k = 0 THEN << >> ELSE IF k = 1 THEN <<root>> ELSE Append(Chain(root, k - 1), "n")
TargetDirs == {Chain(root, k) : root \in {"data", "test"}, k \in 0..MaxDepth}
Urls == {MemoryUrl} \cup {FileUrl(Append(d, "jobs.db")) : d \in TargetDirs}

\* the tasks in flight at the same time and the rows of the store of the
\* application, the tasks in flight when tasks race, and what the user
\* types into the form of the application
MaxTasks == 1
MaxAppRows == 1
MaxRacing == 2
AppSalaryMins == {<<"0">>}
AppSalaryMaxs == {<<"0">>}

\* the callers that share one store through clones of its handle, and the
\* number of writes they make
Callers == {"A", "B"}
MaxOps == 3
\* what they insert, and what they write over row 1: three records that
\* differ in every text field
ConcInserts ==
    {b \in JobBodies : b.company = "B" \/ (b.company = "A" /\ b.position = "P" /\ b.cv = None)}
ConcUpdates == {WithId(b, Some(1)) : b \in {x \in JobBodies : x.company = ""}}

(***************************************************************************)
(* State.                                                                  *)
(*   rows   the table job_applications: id -> row                          *)
(*   seq    the AUTOINCREMENT counter of the table                         *)
(*   clock  the second the store's clock shows                             *)
(*   last   the call made last: operation, arguments and result            *)
(*   live   the ids the callers hold: returned by an insert_job and not     *)
(*          since given to a successful delete_job or cleared by clear_all *)
(*   codec  a Status taken through to_db_string and from_db_string         *)
(*   pools  the connection pools: pool -> the table and counter it reaches *)
(*   handles  the Database values in use: handle -> the pool it holds      *)
(*   form   the EditForm of the window and the result of its last to_job   *)
(*   issued the ids insert_job has returned since the file was created     *)
(*   app    the fields of JobTrackerApp                                     *)
(*   tasks  the tasks of the application in flight, in order of start,     *)
(*          each with its position, its store calls and its result message *)
(*   recent whether the most recent result the application handled was a  *)
(*          failure: among initialization, load results and save          *)
(*          validations (failed), and among the last two only (loaded)    *)
(*   procs  the concurrent callers: where each is in its call, the call,   *)
(*          its previous call, and whether another caller wrote since      *)
(*   hist   the successful writes that have returned, in order of return   *)
(*   fs     the file system: the directories that exist and the database   *)
(*          files, each with its content                                   *)
(***************************************************************************)
VARIABLES rows, seq, clock, last, live, codec, handles, pools, form, fs, issued,
          procs, hist, app, tasks, recent
vars == <<rows, seq, clock, last, live, codec, handles, pools, form, fs, issued, procs, hist,
          app, tasks, recent>>

FormIdle == [phase |-> "editing", fields |-> EditFormNew, res |-> OkUnit]
Call(op, job, id, res) == [op |-> op, job |-> job, id |-> id, res |-> res]
CodecIdle == [phase |-> "idle", status |-> Applied, text |-> << >>, res |-> Ok(Applied)]

\* Database::new on a fresh target: the schema exists and holds no row
NoCall == Call("none", None, 0, OkUnit)
ProcIdle == [pc |-> "idle", call |-> NoCall, prev |-> NoCall, intervened |-> FALSE,
             disturbed |-> FALSE]
\* SQLITE_BUSY: the statement found the database locked and did nothing;
\* the ? operator turns the sqlx error into DbError::Connection
Busy == [kind |-> "Connection", id |-> 0, msg |-> <<"database is locked">>]
IsWrite(op) == op \in {"insert_job", "update_job", "delete_job", "clear_all"}

Init ==
    /\ rows = << >>
    /\ seq = 0
    /\ clock = 0
    /\ last = Call("new", None, 0, OkUnit)
    /\ live = {}
    /\ codec = CodecIdle
    /\ pools = <<[rows |-> << >>, seq |-> 0]>>
    /\ handles = <<1>>
    /\ form = FormIdle
    /\ fs = EmptyFs
    /\ issued = {}
    /\ procs = [c \in Callers |-> ProcIdle]
    /\ hist = << >>
    /\ app = JobTrackerAppNew
    /\ tasks = <<InitTask>>
    /\ recent = [failed |-> FALSE, loaded |-> FALSE]

Tick ==
    /\ clock < MaxClock
    /\ clock' = clock + 1
    /\ UNCHANGED <<rows, seq, last, live, codec, handles, pools, form, fs, issued, procs, hist, app, tasks, recent>>

InsertJob(job) ==
    /\ NextRowid(rows, seq) <= MaxId
    /\ LET r == insert_job(rows, seq, clock, job)
       IN  /\ rows' = r.rows
           /\ seq' = r.seq
           /\ last' = Call("insert_job", Some(job), 0, r.res)
           /\ live' = IF r.res.ok THEN live \cup {r.res.id} ELSE live
           /\ issued' = IF r.res.ok THEN issued \cup {r.res.id} ELSE issued
    /\ UNCHANGED <<clock, codec, handles, pools, form, fs, procs, hist, app, tasks, recent>>

GetAllJobs ==
    /\ \E res \in get_all_jobs(rows) : last' = Call("get_all_jobs", None, 0, res)
    /\ UNCHANGED <<rows, seq, clock, live, codec, handles, pools, form, fs, issued, procs, hist, app, tasks, recent>>

GetJobById(id) ==
    /\ last' = Call("get_job_by_id", None, id, get_job_by_id(rows, id))
    /\ UNCHANGED <<rows, seq, clock, live, codec, handles, pools, form, fs, issued, procs, hist, app, tasks, recent>>

UpdateJob(job) ==
    /\ LET r == update_job(rows, job)
       IN  /\ rows' = r.rows
           /\ last' = Call("update_job", Some(job), 0, r.res)
    /\ UNCHANGED <<seq, clock, live, codec, handles, pools, form, fs, issued, procs, hist, app, tasks, recent>>

DeleteJob(id) ==
    /\ LET r == delete_job(rows, id)
       IN  /\ rows' = r.rows
           /\ last' = Call("delete_job", None, id, r.res)
           /\ live' = IF r.res.ok THEN live \ {id} ELSE live
    /\ UNCHANGED <<seq, clock, codec, handles, pools, form, fs, issued, procs, hist, app, tasks, recent>>

ClearAll ==
    /\ LET r == clear_all(rows)
       IN  /\ rows' = r.rows
           /\ last' = Call("clear_all", None, 0, r.res)
           /\ live' = IF r.res.ok THEN {} ELSE live
    /\ UNCHANGED <<seq, clock, codec, handles, pools, form, fs, issued, procs, hist, app, tasks, recent>>

\* Database::new on the path of the store again: the file holds the table
Reopen ==
    /\ LET r == create_schema(TRUE, rows, seq)
       IN  /\ rows' = r.rows
           /\ seq' = r.seq
           /\ last' = Call("reopen", None, 0, r.res)
    /\ UNCHANGED <<clock, live, codec, handles, pools, form, fs, issued, procs, hist, app, tasks, recent>>

Next ==
    \/ Tick
    \/ \E job \in NewJobs : InsertJob(job)
    \/ GetAllJobs
    \/ \E id \in IdArgs : GetJobById(id)
    \/ \E job \in Jobs : UpdateJob(job)
    \/ \E id \in IdArgs : DeleteJob(id)
    \/ ClearAll
    \/ Reopen

Spec == Init /\ [][Next]_vars

(***************************************************************************)
(* The encoding of Status on its own: pick a status, encode it, decode the *)
(* text.                                                                   *)
(***************************************************************************)
ChooseStatus(s) ==
    /\ codec.phase \in {"idle", "decoded", "parsed"}
    /\ codec' = [phase |-> "chosen", status |-> s, text |-> << >>, res |-> Ok(Applied)]
    /\ UNCHANGED <<rows, seq, clock, last, live, handles, pools, form, fs, issued, procs, hist, app, tasks, recent>>

EncodeStatus ==
    /\ codec.phase = "chosen"
    /\ codec' = [codec EXCEPT !.phase = "encoded", !.text = to_db_string(codec.status)]
    /\ UNCHANGED <<rows, seq, clock, last, live, handles, pools, form, fs, issued, procs, hist, app, tasks, recent>>

DecodeStatus ==
    /\ codec.phase = "encoded"
    /\ codec' = [codec EXCEPT !.phase = "decoded", !.res = from_db_string(codec.text)]
    /\ UNCHANGED <<rows, seq, clock, last, live, handles, pools, form, fs, issued, procs, hist, app, tasks, recent>>

\* from_db_string on a text that no to_db_string call need have written
ParseText(t) ==
    /\ codec.phase \in {"idle", "decoded", "parsed"}
    /\ codec' = [phase |-> "parsed", status |-> Applied, text |-> t, res |-> from_db_string(t)]
    /\ UNCHANGED <<rows, seq, clock, last, live, handles, pools, form, fs, issued, procs, hist, app, tasks, recent>>

CodecNext ==
    \/ \E s \in Statuses : ChooseStatus(s)
    \/ EncodeStatus
    \/ DecodeStatus
    \/ \E t \in DecodeTexts : ParseText(t)

CodecSpec == Init /\ [][CodecNext]_vars

(***************************************************************************)
(* A store whose file is also written by another program: row TamperId     *)
(* gets texts and integers that insert_job and update_job never write.     *)
(***************************************************************************)
Tamper(c) ==
    /\ TamperId \in DOMAIN rows
    /\ rows' = [rows EXCEPT ![TamperId] = [@ EXCEPT !.date = c.date, !.status = c.status,
                                                    !.salary_min = c.salary_min,
                                                    !.salary_max = c.salary_max]]
    /\ last' = Call("tamper", None, TamperId, OkUnit)
    /\ UNCHANGED <<seq, clock, live, codec, handles, pools, form, fs, issued, procs, hist, app, tasks, recent>>

TamperNext ==
    \/ \E job \in TamperJobs : InsertJob(job)
    \/ \E c \in TamperChoices : Tamper(c)
    \/ \E id \in IdArgs : GetJobById(id)
    \/ GetAllJobs

TamperSpec == Init /\ [][TamperNext]_vars

(***************************************************************************)
(* Clones of the Database value: each write goes through one handle to     *)
(* the pool the handle holds.                                              *)
(***************************************************************************)
View(h) == pools[handles[h]]

CloneHandle(h) ==
    /\ Len(handles) < MaxHandles
    /\ LET c == database_clone(pools, handles[h])
       IN  /\ pools' = c.pools
           /\ handles' = Append(handles, c.pool)
    /\ UNCHANGED <<rows, seq, clock, last, live, codec, form, fs, issued, procs, hist, app, tasks, recent>>

InsertVia(h, job) ==
    /\ NextRowid(View(h).rows, View(h).seq) <= MaxId
    /\ LET r == insert_job(View(h).rows, View(h).seq, clock, job)
       IN  /\ pools' = [pools EXCEPT ![handles[h]] = [rows |-> r.rows, seq |-> r.seq]]
           /\ last' = Call("insert_job", Some(job), 0, r.res)
    /\ UNCHANGED <<rows, seq, clock, live, codec, handles, form, fs, issued, procs, hist, app, tasks, recent>>

UpdateVia(h, job) ==
    /\ LET r == update_job(View(h).rows, job)
       IN  /\ pools' = [pools EXCEPT ![handles[h]].rows = r.rows]
           /\ last' = Call("update_job", Some(job), 0, r.res)
    /\ UNCHANGED <<rows, seq, clock, live, codec, handles, form, fs, issued, procs, hist, app, tasks, recent>>

DeleteVia(h, id) ==
    /\ LET r == delete_job(View(h).rows, id)
       IN  /\ pools' = [pools EXCEPT ![handles[h]].rows = r.rows]
           /\ last' = Call("delete_job", None, id, r.res)
    /\ UNCHANGED <<rows, seq, clock, live, codec, handles, form, fs, issued, procs, hist, app, tasks, recent>>

ClearVia(h) ==
    /\ LET r == clear_all(View(h).rows)
       IN  /\ pools' = [pools EXCEPT ![handles[h]].rows = r.rows]
           /\ last' = Call("clear_all", None, 0, r.res)
    /\ UNCHANGED <<rows, seq, clock, live, codec, handles, form, fs, issued, procs, hist, app, tasks, recent>>

CloneNext ==
    \/ \E h \in DOMAIN handles : CloneHandle(h)
    \/ \E h \in DOMAIN handles : \E job \in NewJobs : InsertVia(h, job)
    \/ \E h \in DOMAIN handles : \E job \in Jobs : UpdateVia(h, job)
    \/ \E h \in DOMAIN handles : \E id \in IdArgs : DeleteVia(h, id)
    \/ \E h \in DOMAIN handles : ClearVia(h)

CloneSpec == Init /\ [][CloneNext]_vars

(***************************************************************************)
(* Comparison of Status values and the default Status.                     *)
(***************************************************************************)
\* the values compared: every variant, rounds and amounts at zero, at both
\* ends of their types and on both sides of zero
OrderStatuses ==
    {Applied, Rejected, Interview(0), Interview(1), Interview(2), Interview(U8_MAX),
     Offer(I32_MIN), Offer(-75000), Offer(-1), Offer(0), Offer(1), Offer(10), Offer(I32_MAX)}

Compare(a, b) ==
    /\ last' = [op |-> "cmp", a |-> a, b |-> b, res |-> status_cmp(a, b)]
    /\ UNCHANGED <<rows, seq, clock, live, codec, handles, pools, form, fs, issued, procs, hist, app, tasks, recent>>

TakeDefault ==
    /\ last' = [op |-> "default", a |-> StatusDefault, b |-> StatusDefault, res |-> "Equal"]
    /\ UNCHANGED <<rows, seq, clock, live, codec, handles, pools, form, fs, issued, procs, hist, app, tasks, recent>>

OrderNext ==
    \/ \E a \in OrderStatuses : \E b \in OrderStatuses : Compare(a, b)
    \/ TakeDefault

OrderSpec == Init /\ [][OrderNext]_vars

(***************************************************************************)
(* Stores opened with the in-memory marker: each Database::new connects    *)
(* a pool of its own to a database of its own.                             *)
(***************************************************************************)
MaxStores == 2
\* the record written to the in-memory stores
MemoryJobs ==
    { JobApplication(None, None, None, "A", "P", Applied, "L", SalaryRange(<<0>>, <<0>>)) }

\* every in-memory store opened so far is one store
connect_memory_shared(pls, store) == [pools |-> pls, pool |-> 1]
\* SqlitePool::connect_with for the in-memory marker: a pool on a new
\* database that holds what create_schema left
connect_memory(pls, store) == [pools |-> Append(pls, store), pool |-> Len(pls) + 1]

OpenMemory ==
    /\ Len(handles) < MaxStores
    /\ LET r == database_new(fs, MemoryUrl)
           c == connect_memory(pools, r.store)
       IN  /\ r.res.ok
           /\ pools' = c.pools
           /\ handles' = Append(handles, c.pool)
           /\ last' = Call("new", None, Len(handles) + 1, r.res)
    /\ UNCHANGED <<rows, seq, clock, live, codec, form, fs, issued, procs, hist, app, tasks, recent>>

GetAllVia(h) ==
    /\ \E res \in get_all_jobs(View(h).rows) : last' = Call("get_all_jobs", None, h, res)
    /\ UNCHANGED <<rows, seq, clock, live, codec, handles, pools, form, fs, issued, procs, hist, app, tasks, recent>>

MemoryNext ==
    \/ OpenMemory
    \/ \E h \in DOMAIN handles : \E job \in MemoryJobs : InsertVia(h, job)
    \/ \E h \in DOMAIN handles : \E id \in 1..MaxId : DeleteVia(h, id)
    \/ \E h \in DOMAIN handles : ClearVia(h)
    \/ \E h \in DOMAIN handles : GetAllVia(h)

MemorySpec == Init /\ [][MemoryNext]_vars

(***************************************************************************)
(* The edit form: each field is set by its message, to_job converts the   *)
(* form.                                                                   *)
(***************************************************************************)
SetField(fields) ==
    /\ form' = [phase |-> "editing", fields |-> fields, res |-> OkUnit]
    /\ UNCHANGED <<rows, seq, clock, last, live, codec, handles, pools, fs, issued, procs, hist, app, tasks, recent>>

DateChanged(v) == SetField([form.fields EXCEPT !.date = v])
SalaryMinChanged(v) == SetField([form.fields EXCEPT !.salary_min = v])
SalaryMaxChanged(v) == SetField([form.fields EXCEPT !.salary_max = v])
StatusChanged(v) == SetField([form.fields EXCEPT !.status = v])
CvPathChanged(v) == SetField([form.fields EXCEPT !.cv_path = v])
InterviewRoundChanged(v) == SetField([form.fields EXCEPT !.interview_round = v])
OfferAmountChanged(v) == SetField([form.fields EXCEPT !.offer_amount = v])

ToJob(id) ==
    /\ form.phase = "editing"
    /\ form' = [form EXCEPT !.phase = "converted", !.res = to_job(form.fields, id)]
    /\ UNCHANGED <<rows, seq, clock, last, live, codec, handles, pools, fs, issued, procs, hist, app, tasks, recent>>

FormNext ==
    \/ \E v \in FormDates : DateChanged(v)
    \/ \E v \in FormSalaryMins : SalaryMinChanged(v)
    \/ \E v \in FormSalaryMaxs : SalaryMaxChanged(v)
    \/ \E v \in StatusSelections : StatusChanged(v)
    \/ \E v \in FormCvPaths : CvPathChanged(v)
    \/ \E v \in FormRounds : InterviewRoundChanged(v)
    \/ \E v \in FormOffers : OfferAmountChanged(v)
    \/ \E id \in FormIds : ToJob(id)

FormSpec == Init /\ [][FormNext]_vars

\* EditForm::from_job: the form is filled from a record (as EditJob does)
FromJob(job) ==
    /\ form' = [phase |-> "editing", fields |-> from_job(job), res |-> OkUnit]
    /\ last' = Call("from_job", Some(job), 0, OkUnit)
    /\ UNCHANGED <<rows, seq, clock, live, codec, handles, pools, fs, issued, procs, hist, app, tasks, recent>>

\* a form filled from a record, edited in its date and cv path, converted
\* with any id
EditNext ==
    \/ \E job \in Jobs : FromJob(job)
    \/ \E v \in FormDates : DateChanged(v)
    \/ \E v \in FormCvPaths : CvPathChanged(v)
    \/ \E id \in {None} \cup {Some(k) : k \in IdArgs} : ToJob(id)

EditSpec == Init /\ [][EditNext]_vars

(***************************************************************************)
(* Opening stores: Database::new on a target, directories made beforehand  *)
(* by the caller, and the removal of a directory tree between runs.        *)
(***************************************************************************)
DatabaseNew(url) ==
    /\ LET r == database_new(fs, url)
       IN  /\ fs' = r.fs
           /\ last' = [op |-> "open", url |-> url, store |-> r.store, res |-> r.res]
    /\ UNCHANGED <<rows, seq, clock, live, codec, handles, pools, form, issued, procs, hist, app, tasks, recent>>

\* std::fs::create_dir_all by the caller before it opens the store
MkDirAll(dir) ==
    /\ Len(dir) > 0
    /\ fs' = [fs EXCEPT !.dirs = @ \cup Ancestors(dir)]
    /\ UNCHANGED <<rows, seq, clock, last, live, codec, handles, pools, form, issued, procs, hist, app, tasks, recent>>

\* remove_dir_all on a root: the directories and files under it go
RemoveDirAll(root) ==
    /\ <<root>> \in fs.dirs
    /\ fs' = [dirs |-> {d \in fs.dirs : d[1] # root},
              files |-> [q \in {x \in DOMAIN fs.files : x[1] # root} |-> fs.files[q]]]
    /\ UNCHANGED <<rows, seq, clock, last, live, codec, handles, pools, form, issued, procs, hist, app, tasks, recent>>

OpenNext ==
    \/ \E url \in Urls : DatabaseNew(url)
    \/ \E dir \in TargetDirs : MkDirAll(dir)
    \/ \E root \in {"data", "test"} : RemoveDirAll(root)

OpenSpec == Init /\ [][OpenNext]_vars

(***************************************************************************)
(* Concurrent callers on clones of one handle.  A call is invoked, its one *)
(* SQL statement is executed by the engine in one step (or finds the       *)
(* database locked), and the result returns to the caller; the steps of    *)
(* different callers interleave.                                           *)
(***************************************************************************)
InFlight == {c \in Callers : procs[c].pc # "idle" /\ IsWrite(procs[c].call.op)}

Invoke(c, op, job, id) ==
    /\ procs[c].pc = "idle"
    /\ IsWrite(op) => Len(hist) + Cardinality(InFlight) < MaxOps
    /\ procs' = [procs EXCEPT ![c].pc = "called", ![c].call = Call(op, job, id, OkUnit)]
    /\ UNCHANGED <<rows, seq, clock, last, live, codec, handles, pools, form, fs, issued, hist, app, tasks, recent>>

\* caller d's latest statement was an update_job: its call in progress once
\* executed, and its previous call (kept only when it was an update_job)
\* until the next one is executed
AfterUpdate(d) ==
    IF procs[d].pc = "done" THEN procs[d].call.op = "update_job"
    ELSE procs[d].prev.op = "update_job"
\* another caller wrote between c's update_job and the read c now executes
Disturbed(c) == procs[c].call.op = "get_job_by_id" /\ procs[c].intervened

\* the statement of a call as a function of the table
Statement(call, rws, sq, now) ==
    CASE call.op = "insert_job" -> insert_job(rws, sq, now, Unwrap(call.job))
      [] call.op = "update_job" ->
             LET r == update_job(rws, Unwrap(call.job))
             IN  [rows |-> r.rows, seq |-> sq, res |-> r.res]
      [] call.op = "delete_job" ->
             LET r == delete_job(rws, call.id)
             IN  [rows |-> r.rows, seq |-> sq, res |-> r.res]
      [] call.op = "clear_all" ->
             LET r == clear_all(rws)
             IN  [rows |-> r.rows, seq |-> sq, res |-> r.res]
      [] call.op = "get_job_by_id" ->
             [rows |-> rws, seq |-> sq, res |-> get_job_by_id(rws, call.id)]

Execute(c) ==
    /\ procs[c].pc = "called"
    /\ procs[c].call.op = "insert_job" => NextRowid(rows, seq) <= MaxId
    /\ LET r == Statement(procs[c].call, rows, seq, clock)
           wrote == IsWrite(procs[c].call.op) /\ r.res.ok
       IN  /\ rows' = r.rows
           /\ seq' = r.seq
           /\ procs' = [d \in Callers |->
                 IF d = c
                 THEN [procs[c] EXCEPT !.pc = "done", !.call.res = r.res,
                                       !.disturbed = Disturbed(c),
                                       !.intervened = FALSE]
                 ELSE [procs[d] EXCEPT !.intervened = @ \/ (wrote /\ AfterUpdate(d))]]
    /\ UNCHANGED <<clock, last, live, codec, handles, pools, form, fs, issued, hist, app, tasks, recent>>

ExecuteBusy(c) ==
    /\ procs[c].pc = "called"
    /\ procs' = [procs EXCEPT ![c].pc = "done", ![c].call.res = Err(Busy),
                              ![c].disturbed = Disturbed(c),
                              ![c].intervened = FALSE]
    /\ UNCHANGED <<rows, seq, clock, last, live, codec, handles, pools, form, fs, issued, hist, app, tasks, recent>>

Return(c) ==
    /\ procs[c].pc = "done"
    /\ procs' = [procs EXCEPT ![c].pc = "idle", ![c].disturbed = FALSE,
                              ![c].prev = IF procs[c].call.op = "update_job"
                                          THEN procs[c].call ELSE NoCall]
    /\ hist' = IF IsWrite(procs[c].call.op) /\ procs[c].call.res.ok
               THEN Append(hist, procs[c].call) ELSE hist
    /\ UNCHANGED <<rows, seq, clock, last, live, codec, handles, pools, form, fs, issued, app, tasks, recent>>

ConcNext ==
    \/ \E c \in Callers : \E j \in ConcInserts : Invoke(c, "insert_job", Some(j), 0)
    \/ \E c \in Callers : \E j \in ConcUpdates : Invoke(c, "update_job", Some(j), 0)
    \/ \E c \in Callers : Invoke(c, "delete_job", None, 1)
    \/ \E c \in Callers : Invoke(c, "clear_all", None, 0)
    \/ \E c \in Callers : Invoke(c, "get_job_by_id", None, 1)
    \/ \E c \in Callers : Execute(c)
    \/ \E c \in Callers : ExecuteBusy(c)
    \/ \E c \in Callers : Return(c)

ConcSpec == Init /\ [][ConcNext]_vars

(***************************************************************************)
(* The application: update handles one message at a time; the tasks it     *)
(* starts run their store calls on clones of the handle, interleaved with  *)
(* each other and with the messages, and each ends in one JobsLoaded       *)
(* message.  The messages are the ones the view offers in the current      *)
(* state.                                                                  *)
(***************************************************************************)
Start(limit, op, id, r) ==
    /\ Len(tasks) + Len(r.tasks) <= limit
    /\ app' = r.app
    /\ tasks' = tasks \o r.tasks
    /\ last' = Call(op, None, id, OkUnit)
    /\ recent' = IF op = "SaveJob"
                 THEN LET bad == ~to_job(app.edit_form, IF id = 0 THEN None ELSE Some(id)).ok
                      IN  [failed |-> bad, loaded |-> bad]
                 ELSE recent
    /\ UNCHANGED <<rows, seq, clock, live, codec, handles, pools, form, fs, issued, procs, hist>>
Handle(op, id, r) == Start(MaxTasks, op, id, r)
Remove(s, t) == [i \in 1..(Len(s) - 1) |-> IF i < t THEN s[i] ELSE s[i + 1]]

\* initialize_database: Database::new on the file of the application
\* succeeds or fails; the list it fetches is dropped by init
RunInitialize(t) ==
    /\ tasks[t].pc = "init"
    /\ \E ok \in BOOLEAN :
          tasks' = [tasks EXCEPT ![t] =
              [@ EXCEPT !.pc = IF ok THEN "ready" ELSE "done",
                        !.msg = IF ok THEN OkJobs(<< >>) ELSE Err(to_string(IoError))]]
    /\ UNCHANGED <<rows, seq, clock, last, live, codec, handles, pools, form, fs, issued, procs, hist, app, recent>>

\* view_table shows the edit row: for a new job, or in place of a listed job
EditRowShown == 
    /\ IsSome(app.editing_job_id)
    /\ Unwrap(app.editing_job_id) = 0 \/ Listed(app, Unwrap(app.editing_job_id)) # {}
\* the ids of the rows that show their Edit and Delete buttons
ButtonIds == {Unwrap(app.jobs[i].id) : i \in 1..Len(app.jobs)} \ {UnwrapOr(app.editing_job_id, 0)}

OnDatabaseInitialized(t) ==
    /\ tasks[t].pc = "ready"
    /\ LET r == on_database_initialized(app)
       IN  /\ app' = r.app
           /\ tasks' = Remove(tasks, t) \o r.tasks
    /\ last' = Call("DatabaseInitialized", None, 0, OkUnit)
    /\ recent' = [recent EXCEPT !.failed = FALSE]
    /\ UNCHANGED <<rows, seq, clock, live, codec, handles, pools, form, fs, issued, procs, hist>>

OnAddNewJob == Handle("AddNewJob", 0, on_add_new_job(app))
OnEditJob(id) == id \in ButtonIds /\ Handle("EditJob", id, on_edit_job(app, id))
OnSaveJob(id) ==
    /\ EditRowShown
    /\ id = Unwrap(app.editing_job_id)
    /\ Handle("SaveJob", id, on_save_job(app, id))
OnCancelEdit == EditRowShown /\ Handle("CancelEdit", 0, on_cancel_edit(app))
OnDeleteJob(id) == id \in ButtonIds /\ Handle("DeleteJob", id, on_delete_job(app, id))
OnClearDatabase == Handle("ClearDatabase", 0, on_clear_database(app))
OnSelectJob(id) == id \in ButtonIds /\ Handle("SelectJob", id, on_select_job(app, Some(id)))
OnSalaryMinChanged(v) ==
    EditRowShown /\ Handle("SalaryMinChanged", 0, SetFormField(app, [app.edit_form EXCEPT !.salary_min = v]))
OnSalaryMaxChanged(v) ==
    EditRowShown /\ Handle("SalaryMaxChanged", 0, SetFormField(app, [app.edit_form EXCEPT !.salary_max = v]))

\* the first store call of a task: the write
RunWrite(t) ==
    /\ tasks[t].pc = "write"
    /\ tasks[t].write.op = "insert_job" => NextRowid(rows, seq) <= MaxAppRows
    /\ LET r == Statement(tasks[t].write, rows, seq, clock)
           done == ~r.res.ok \/ ~tasks[t].fetches
       IN  /\ rows' = r.rows
           /\ seq' = r.seq
           /\ tasks' = [tasks EXCEPT ![t] =
                 [@ EXCEPT !.pc = IF done THEN "done" ELSE "fetch",
                           !.calls = Append(@, [op |-> tasks[t].write.op, ok |-> r.res.ok]),
                           !.msg = IF r.res.ok THEN OkJobs(<< >>) ELSE Err(to_string(r.res.err))]]
    /\ UNCHANGED <<clock, last, live, codec, handles, pools, form, fs, issued, procs, hist, app, recent>>

\* db.get_all_jobs().await.map_err(|e| e.to_string())
RunFetch(t) ==
    /\ tasks[t].pc = "fetch"
    /\ \E res \in get_all_jobs(rows) :
          tasks' = [tasks EXCEPT ![t] =
              [@ EXCEPT !.pc = "done",
                        !.calls = Append(@, [op |-> "get_all_jobs", ok |-> res.ok]),
                        !.msg = IF res.ok THEN res ELSE Err(to_string(res.err))]]
    /\ UNCHANGED <<rows, seq, clock, last, live, codec, handles, pools, form, fs, issued, procs, hist, app, recent>>

\* the runtime hands the result of a finished task to update as JobsLoaded
OnJobsLoaded(t) ==
    /\ tasks[t].pc = "done"
    /\ app' = on_jobs_loaded(app, tasks[t].msg).app
    /\ tasks' = Remove(tasks, t)
    /\ last' = [op |-> "JobsLoaded", job |-> None, id |-> 0,
                res |-> IF tasks[t].msg.ok THEN OkUnit ELSE tasks[t].msg,
                from |-> tasks[t].kind]
    /\ recent' = [failed |-> ~tasks[t].msg.ok, loaded |-> ~tasks[t].msg.ok]
    /\ UNCHANGED <<rows, seq, clock, live, codec, handles, pools, form, fs, issued, procs, hist>>

AppNext ==
    \/ \E t \in 1..Len(tasks) : RunInitialize(t)
    \/ \E t \in 1..Len(tasks) : OnDatabaseInitialized(t)
    \/ OnAddNewJob
    \/ \E id \in 1..MaxAppRows : OnEditJob(id)
    \/ \E id \in 0..MaxAppRows : OnSaveJob(id)
    \/ OnCancelEdit
    \/ \E id \in 1..MaxAppRows : OnDeleteJob(id)
    \/ OnClearDatabase
    \/ \E id \in 1..MaxAppRows : OnSelectJob(id)
    \/ \E v \in AppSalaryMins : OnSalaryMinChanged(v)
    \/ \E v \in AppSalaryMaxs : OnSalaryMaxChanged(v)
    \/ \E t \in 1..Len(tasks) : RunWrite(t)
    \/ \E t \in 1..Len(tasks) : RunFetch(t)
    \/ \E t \in 1..Len(tasks) : OnJobsLoaded(t)

AppSpec == Init /\ [][AppNext]_vars

(***************************************************************************)
(* The application with several tasks in flight: the user saves, deletes   *)
(* and clears while earlier tasks still run.                               *)
(***************************************************************************)
RacingSaveJob(id) ==
    /\ EditRowShown
    /\ id = Unwrap(app.editing_job_id)
    /\ Start(MaxRacing, "SaveJob", id, on_save_job(app, id))
RacingDeleteJob(id) ==
    id \in ButtonIds /\ Start(MaxRacing, "DeleteJob", id, on_delete_job(app, id))
RacingClearDatabase == Start(MaxRacing, "ClearDatabase", 0, on_clear_database(app))

RaceNext ==
    \/ \E t \in 1..Len(tasks) : RunInitialize(t)
    \/ \E t \in 1..Len(tasks) : OnDatabaseInitialized(t)
    \/ OnAddNewJob
    \/ \E v \in AppSalaryMins : OnSalaryMinChanged(v)
    \/ \E v \in AppSalaryMaxs : OnSalaryMaxChanged(v)
    \/ \E id \in 0..MaxAppRows : RacingSaveJob(id)
    \/ \E id \in 1..MaxAppRows : RacingDeleteJob(id)
    \/ RacingClearDatabase
    \/ \E t \in 1..Len(tasks) : RunWrite(t)
    \/ \E t \in 1..Len(tasks) : RunFetch(t)
    \/ \E t \in 1..Len(tasks) : OnJobsLoaded(t)

RaceSpec == Init /\ [][RaceNext]_vars

(***************************************************************************)
(* Properties.                                                             *)
(***************************************************************************)
IdsOf(jobs) == {Unwrap(jobs[i].id) : i \in 1..Len(jobs)}

\* C1: insert_job(j) returns an id > 0, and get_job_by_id(id) called next
\* returns a record equal to j in every field but id, with id = Some(id).
C1_InsertThenGet ==
    last.op = "insert_job" =>
        /\ last.res.ok
        /\ last.res.id > 0
        /\ get_job_by_id(rows, last.res.id)
               = OkJob(WithId(Unwrap(last.job), Some(last.res.id)))

\* C2: decoding the encoding of a status gives that status back.
C2_StatusRoundTrip ==
    codec.phase = "decoded" => codec.res = Ok(codec.status)

C2_Witness ==
    /\ codec.phase = "decoded"
    /\ codec.status = Offer(I32_MIN)
    /\ codec.res.ok

\* C3: get_all_jobs returns Ok with exactly one record for each id that an
\* insert returned and that was not removed since; on a store never used it
\* returns the empty sequence.
C3_GetAllExact ==
    \A r \in get_all_jobs(rows) :
        /\ r.ok
        /\ Len(r.jobs) = Cardinality(live)
        /\ IdsOf(r.jobs) = live
        /\ (last.op = "new" => r.jobs = << >>)

\* C4: update_job(j) on an existing id k returns Ok, and get_job_by_id(k)
\* called next returns a record equal to j in every field.
C4_UpdateThenGet ==
    (/\ last.op = "update_job"
     /\ IsSome(Unwrap(last.job).id)
     /\ Unwrap(Unwrap(last.job).id) \in DOMAIN rows) =>
        /\ last.res = OkUnit
        /\ get_job_by_id(rows, Unwrap(Unwrap(last.job).id)) = OkJob(Unwrap(last.job))

\* C5: delete_job(k) on an existing id k returns Ok; afterwards
\* get_job_by_id(k) returns NotFound(k) and no result of get_all_jobs holds
\* a record with id k.
C5_DeleteExisting ==
    [][last'.op = "delete_job" =>
          LET k == last'.id
          IN  (DeleteJob(k) /\ k \in DOMAIN rows) =>
                  /\ last'.res = OkUnit
                  /\ get_job_by_id(rows', k) = Err(NotFound(k))
                  /\ \A r \in get_all_jobs(rows') : r.ok => k \notin IdsOf(r.jobs)]_vars

C5_Witness ==
    /\ last.op = "delete_job"
    /\ last.res.ok
    /\ last.id \notin DOMAIN rows
    /\ rows # << >>

\* C6: update_job(j) with j.id = Some(k) and no row k returns NotFound(k)
\* and leaves the table as it was.
C6_UpdateMissing ==
    [][last'.op = "update_job" =>
          LET j == Unwrap(last'.job)
          IN  (UpdateJob(j) /\ IsSome(j.id) /\ Unwrap(j.id) \notin DOMAIN rows) =>
                  /\ last'.res = Err(NotFound(Unwrap(j.id)))
                  /\ rows' = rows
                  /\ seq' = seq]_vars

C6_Witness ==
    /\ last.op = "update_job"
    /\ IsSome(Unwrap(last.job).id)
    /\ Unwrap(Unwrap(last.job).id) = MaxId + 1
    /\ ~last.res.ok
    /\ rows # << >>

\* C7: update_job(j) with j.id = None returns NotFound(0) and writes
\* nothing, whatever the table holds.
C7_UpdateWithoutId ==
    [][last'.op = "update_job" =>
          LET j == Unwrap(last'.job)
          IN  (UpdateJob(j) /\ IsNone(j.id)) =>
                  /\ last'.res = Err(NotFound(0))
                  /\ rows' = rows
                  /\ seq' = seq]_vars

C7_Witness ==
    /\ last.op = "update_job"
    /\ IsNone(Unwrap(last.job).id)
    /\ ~last.res.ok
    /\ Cardinality(DOMAIN rows) = MaxId

\* C8: delete_job(k) with no row k returns NotFound(k) and leaves the table
\* as it was; a delete_job(k) repeated after a successful one returns
\* NotFound(k).
C8_DeleteMissing ==
    [][last'.op = "delete_job" =>
          LET k == last'.id
          IN  /\ (DeleteJob(k) /\ k \notin DOMAIN rows) =>
                     /\ last'.res = Err(NotFound(k))
                     /\ rows' = rows
                     /\ seq' = seq
              /\ (DeleteJob(k) /\ k \in DOMAIN rows) =>
                     delete_job(rows', k) = [rows |-> rows', res |-> Err(NotFound(k))]]_vars

\* a delete_job of an id that was inserted before and is gone
C8_Witness ==
    /\ last.op = "delete_job"
    /\ ~last.res.ok
    /\ last.id \in 1..seq
    /\ rows # << >>

\* C9: get_job_by_id(k) returns the record with id k when row k exists and
\* NotFound(k) otherwise.
C9_GetById ==
    last.op = "get_job_by_id" =>
        IF last.id \in DOMAIN rows
        THEN last.res.ok /\ last.res.job.id = Some(last.id)
        ELSE last.res = Err(NotFound(last.id))

\* C10: clear_all returns Ok whatever the table holds, and get_all_jobs
\* called next returns the empty sequence.
C10_ClearAll ==
    [][ClearAll => /\ last'.res = OkUnit
                   /\ get_all_jobs(rows') = {OkJobs(<< >>)}]_vars

\* a clear_all after every id was handed out
C10_Witness ==
    /\ last.op = "clear_all"
    /\ last.res.ok
    /\ seq = MaxId
    /\ rows = << >>

\* C11: opening the store again at its path succeeds and leaves the data as
\* it was: get_all_jobs and get_job_by_id return after the reopen what they
\* returned before it, and the id counter is kept.
C11_ReopenKeepsData ==
    [][last'.op = "reopen" =>
          (Reopen =>
              /\ last'.res = OkUnit
              /\ rows' = rows
              /\ seq' = seq
              /\ get_all_jobs(rows') = get_all_jobs(rows)
              /\ \A k \in IdArgs : get_job_by_id(rows', k) = get_job_by_id(rows, k))]_vars

\* a reopen of a store that holds every row it can
C11_Witness ==
    /\ last.op = "reopen"
    /\ last.res.ok
    /\ Cardinality(DOMAIN rows) = MaxId

\* ids are handed out in increasing order, so of two records the one with
\* the larger id was inserted later
NewestFirst(jobs) ==
    \A i, j \in 1..Len(jobs) : i < j => Unwrap(jobs[i].id) > Unwrap(jobs[j].id)

\* C12: every list get_all_jobs returns has the record inserted later in
\* front of the record inserted earlier.
C12_NewestFirst ==
    \A r \in get_all_jobs(rows) : r.ok => NewestFirst(r.jobs)

\* C17: insert_job of a record with id Some(k) creates a new row under the
\* id the store assigns, the same as for a record without id, and changes
\* no existing row.
C17_InsertIgnoresId ==
    [][last'.op = "insert_job" =>
          LET j == Unwrap(last'.job)
              plain == insert_job(rows, seq, clock, WithId(j, None))
          IN  (InsertJob(j) /\ IsSome(j.id)) =>
                  /\ last'.res = plain.res
                  /\ rows' = plain.rows
                  /\ last'.res.id \notin DOMAIN rows
                  /\ DOMAIN rows' = DOMAIN rows \cup {last'.res.id}
                  /\ \A k \in DOMAIN rows : rows'[k] = rows[k]]_vars

\* an insert of a record that carries the id of an existing row
C17_Witness ==
    /\ last.op = "insert_job"
    /\ Unwrap(last.job).id = Some(1)
    /\ last.res.id = 2
    /\ DOMAIN rows = {1, 2}

\* the fields of a record other than its id
SameButId(a, b) == WithId(a, None) = WithId(b, None)

\* C18: inserting the same value twice in a row succeeds both times with
\* two different ids, and get_all_jobs then returns Ok with two records
\* under these ids that are equal in every field except id.
C18_DuplicateInsert ==
    [][(/\ last.op = "insert_job"
        /\ last'.op = "insert_job"
        /\ last'.job = last.job
        /\ InsertJob(Unwrap(last'.job))) =>
          /\ last.res.ok /\ last'.res.ok
          /\ last'.res.id # last.res.id
          /\ \A r \in get_all_jobs(rows') :
                /\ r.ok
                /\ \E a, b \in 1..Len(r.jobs) :
                      /\ r.jobs[a].id = Some(last.res.id)
                      /\ r.jobs[b].id = Some(last'.res.id)
                      /\ SameButId(r.jobs[a], r.jobs[b])]_vars

\* a decimal numeral: an optional sign and at least one digit, nothing else
IsNumeral(x) ==
    LET body == IF Len(x) > 0 /\ x[1] \in {"+", "-"} THEN Tail(x) ELSE x
    IN  Len(body) > 0 /\ AllDigits(body)
\* the number a numeral denotes, as sign and magnitude
NumeralValue(x) ==
    LET body == IF x[1] \in {"+", "-"} THEN Tail(x) ELSE x
        mag == CharsToMag(body)
    IN  [neg |-> x[1] = "-" /\ mag # <<0>>, mag |-> mag]
InU8(v) == ~v.neg /\ MagLeq(v.mag, U8_MAX_MAG)
InI32(v) == IF v.neg THEN MagLeq(v.mag, I32_MIN_MAG) ELSE MagLeq(v.mag, I32_MAX_MAG)

\* C13: from_db_string returns Err for the empty text, for "interview:"
\* followed by an empty, non-numeric or out-of-0..255 suffix, for "offer:"
\* followed by an empty, non-numeric or out-of-i32 suffix, and for every
\* other text that is not exactly "applied" or "rejected"; the error
\* carries the offending suffix, or the whole unknown text.
C13_DecodeErrors ==
    codec.phase = "parsed" =>
        LET t == codec.text
            isInterview == StartsWith(t, InterviewPrefix)
            isOffer == StartsWith(t, OfferPrefix)
            round_str == StripPrefix(t, InterviewPrefix)
            amount_str == StripPrefix(t, OfferPrefix)
        IN  /\ (isInterview /\ (~IsNumeral(round_str) \/ ~InU8(NumeralValue(round_str)))) =>
                  codec.res = Err(<<"Invalid interview round: ", round_str>>)
            /\ (isOffer /\ (~IsNumeral(amount_str) \/ ~InI32(NumeralValue(amount_str)))) =>
                  codec.res = Err(<<"Invalid offer amount: ", amount_str>>)
            /\ (~isInterview /\ ~isOffer /\ t \notin {AppliedText, RejectedText}) =>
                  codec.res = Err(<<"Unknown status: ", t>>)

\* the decode of "interview:256", one above the largest round
C13_Witness ==
    /\ codec.phase = "parsed"
    /\ codec.text = InterviewPrefix \o <<"2", "5", "6">>
    /\ ~codec.res.ok

\* C14: from_db_string(t) = Ok(s) only if t = s.to_db_string().
C14_AcceptsOnlyEncodings ==
    (codec.phase = "parsed" /\ codec.res.ok) => codec.text = to_db_string(codec.res.val)

\* the texts that write a date of year y in ISO 8601: the year with four
\* digits or with a sign and six, then month and day or the day of the
\* year, with or without hyphens
IsoYearTexts(y) ==
    IF y >= 0 THEN {ZeroPad(FmtNat(y), 4), <<"+">> \o ZeroPad(FmtNat(y), 6)}
    ELSE {<<"-">> \o ZeroPad(FmtNat(-y), 6)}
IsoDateTextsOf(y) ==
    {yt \o sep \o ZeroPad(FmtNat(md[1]), 2) \o sep \o ZeroPad(FmtNat(md[2]), 2) :
        yt \in IsoYearTexts(y), sep \in {<< >>, <<"-">>},
        md \in {x \in (1..12) \X (1..31) : x[2] <= DaysInMonth(y, x[1])}}
    \cup {yt \o sep \o ZeroPad(FmtNat(o), 3) :
        yt \in IsoYearTexts(y), sep \in {<< >>, <<"-">>}, o \in 1..DaysInYear(y)}
\* the years the date texts of the model name
IsoYears == {-44, 24, 2023, 2024}
IsoDateTexts == UNION {IsoDateTextsOf(y) : y \in IsoYears}

\* the part of a status text that the decode error names
OffendingText(t) ==
    IF StartsWith(t, InterviewPrefix) THEN StripPrefix(t, InterviewPrefix)
    ELSE IF StartsWith(t, OfferPrefix) THEN StripPrefix(t, OfferPrefix)
    ELSE t

InU32(x) == ~x.neg /\ MagLeq(x.mag, U32_MAX_MAG)
ZeroSalaries(row) ==
    [row EXCEPT !.salary_min = I64FromU32(<<0>>), !.salary_max = I64FromU32(<<0>>)]

\* C16: on a read, salary_min and salary_max are converted one by one: a
\* stored value in 0..4294967295 is returned as it is, any other as 0; the
\* read fails or succeeds as it does with both salaries 0, and the other
\* fields are those of that read.
C16_SalaryClamp ==
    [][last'.op = "get_job_by_id" =>
          LET k == last'.id
          IN  (GetJobById(k) /\ k \in DOMAIN rows) =>
                  LET row == rows[k]
                      zero == row_to_job_application(k, ZeroSalaries(row))
                      lo == IF InU32(row.salary_min) THEN row.salary_min.mag ELSE <<0>>
                      hi == IF InU32(row.salary_max) THEN row.salary_max.mag ELSE <<0>>
                  IN  /\ last'.res.ok = zero.ok
                      /\ ~zero.ok => last'.res = zero
                      /\ zero.ok => last'.res =
                            OkJob([zero.job EXCEPT !.salary = SalaryRange(lo, hi)])]_vars

\* a read of a row that holds -1 and a value above u32 as salaries
C16_Witness ==
    /\ last.op = "get_job_by_id"
    /\ last.id = TamperId
    /\ TamperId \in DOMAIN rows
    /\ rows[TamperId].salary_min = [neg |-> TRUE, mag |-> <<1>>]
    /\ rows[TamperId].salary_max = [neg |-> FALSE, mag |-> <<4, 2, 9, 4, 9, 6, 7, 2, 9, 6>>]
    /\ last.res.ok
    /\ last.res.job.salary = SalaryRange(<<0>>, <<0>>)

\* what a read through handle h returns: get_all_jobs and every get_job_by_id
Reads(h) ==
    [all |-> get_all_jobs(View(h).rows),
     byId |-> [k \in IdArgs |-> get_job_by_id(View(h).rows, k)]]

\* the effect of the write made last, as a read of the table rws shows it
Observes(rws) ==
    CASE last.op = "insert_job" /\ last.res.ok ->
             /\ get_job_by_id(rws, last.res.id)
                    = row_to_job_application(last.res.id, BindJob(Unwrap(last.job), clock))
             /\ \A r \in get_all_jobs(rws) : r.ok => last.res.id \in IdsOf(r.jobs)
      [] last.op = "update_job" /\ last.res.ok ->
             LET id == Unwrap(Unwrap(last.job).id)
             IN  get_job_by_id(rws, id)
                     = row_to_job_application(id, BindJob(Unwrap(last.job), clock))
      [] last.op = "delete_job" /\ last.res.ok ->
             /\ get_job_by_id(rws, last.id) = Err(NotFound(last.id))
             /\ \A r \in get_all_jobs(rws) : r.ok => last.id \notin IdsOf(r.jobs)
      [] last.op = "clear_all" /\ last.res.ok -> get_all_jobs(rws) = {OkJobs(<< >>)}
      [] OTHER -> TRUE

\* C19: after a write through any clone, a read through every clone shows
\* the effect of the write, and the reads through any two clones return
\* the same.
C19_ClonesShareData ==
    \A h \in DOMAIN handles :
        /\ Observes(View(h).rows)
        /\ \A h2 \in DOMAIN handles : Reads(h2) = Reads(h)

\* three handles, and a table with a row that one of them wrote
C19_Witness ==
    /\ Len(handles) = MaxHandles
    /\ last.op = "insert_job"
    /\ last.res = OkId(2)
    /\ \A h \in DOMAIN handles : DOMAIN View(h).rows = {2}

\* a text is a number of the type when it is a numeral in the type's range
IsU32Text(x) == IsNumeral(x) /\ InU32(NumeralValue(x))
IsU8Text(x) == IsNumeral(x) /\ InU8(NumeralValue(x))
IsI32Text(x) == IsNumeral(x) /\ InI32(NumeralValue(x))

C21_CreatesDirectories ==
    [][last'.op = "open" =>
          LET url == last'.url
          IN  DatabaseNew(url) =>
                  /\ (url = MemoryUrl) =>
                        /\ fs' = fs
                        /\ last'.res = OkUnit
                        /\ last'.store.rows = << >>
                  /\ (url # MemoryUrl /\ Parent(Tail(url)) \notin fs.dirs) =>
                        /\ last'.res = OkUnit
                        /\ \A k \in 1..(Len(url) - 2) : SubSeq(url, 2, k + 1) \in fs'.dirs
                        /\ fs.dirs \subseteq fs'.dirs
                        /\ Tail(url) \in DOMAIN fs'.files
                        /\ \A q \in DOMAIN fs.files : q \in DOMAIN fs'.files /\ fs'.files[q] = fs.files[q]
                        /\ last'.store.rows = << >>
                        /\ get_all_jobs(last'.store.rows) = {OkJobs(<< >>)}]_vars

\* an open three levels down when only the first level existed
C21_Witness ==
    /\ last.op = "open"
    /\ last.url = FileUrl(<<"test", "n", "n", "jobs.db">>)
    /\ last.res.ok
    /\ <<"test", "n", "n", "jobs.db">> \in DOMAIN fs.files
    /\ <<"data", "jobs.db">> \in DOMAIN fs.files

\* C22: every id insert_job returns is at least 1 and greater than every id
\* an earlier insert_job returned, whatever was deleted, cleared or
\* reopened in between; no row has the id 0.
C22_IdsIncrease ==
    /\ [][last'.op = "insert_job" =>
             (InsertJob(Unwrap(last'.job)) =>
                 /\ last'.res.ok
                 /\ last'.res.id >= 1
                 /\ \A i \in issued : last'.res.id > i)]_vars
    /\ [](0 \notin DOMAIN rows)

\* an insert that returns MaxId when every earlier row is gone
C22_Witness ==
    /\ last.op = "insert_job"
    /\ last.res = OkId(MaxId)
    /\ DOMAIN rows = {MaxId}
    /\ issued = 1..MaxId

\* the rows other than row k read the same in both tables
OthersKept(before, after, k) ==
    \A m \in DOMAIN before \ {k} :
        /\ m \in DOMAIN after
        /\ after[m] = before[m]
        /\ get_job_by_id(after, m) = get_job_by_id(before, m)

\* C23: update_job and delete_job leave every row but the one of the given
\* id as it was, and insert_job leaves every existing row as it was:
\* get_job_by_id of each of these rows returns the same before and after.
C23_OtherRowsKept ==
    [][/\ (last'.op = "update_job" /\ UpdateJob(Unwrap(last'.job))) =>
              OthersKept(rows, rows', UnwrapOr(Unwrap(last'.job).id, 0))
       /\ (last'.op = "delete_job" /\ DeleteJob(last'.id)) =>
              OthersKept(rows, rows', last'.id)
       /\ (last'.op = "insert_job" /\ InsertJob(Unwrap(last'.job))) =>
              OthersKept(rows, rows', 0)]_vars

\* a successful update of row 1 next to a row 2 that holds other values
C23_Witness ==
    /\ last.op = "update_job"
    /\ last.res.ok
    /\ Unwrap(last.job).id = Some(1)
    /\ DOMAIN rows = {1, 2}
    /\ rows[1].company # rows[2].company

\* the calls that have got their result: returned writes, and the calls
\* whose result is on its way to the caller
DoneCalls == {procs[c].call : c \in {d \in Callers : procs[d].pc = "done"}}
InsertedIds(calls) == {x.res.id : x \in {y \in calls : y.op = "insert_job" /\ y.res.ok}}
HistCalls == {hist[i] : i \in 1..Len(hist)}

RECURSIVE Replay(_, _, _, _)
\* the calls of h from position i on, run one after the other on a table:
\* the table they leave, and whether each returned what h records
Replay(h, i, rws, sq) ==
    IF i > Len(h) THEN [rows |-> rws, same |-> TRUE]
    ELSE LET r == Statement(h[i], rws, sq, clock)
         IN  IF r.res # h[i].res THEN [rows |-> r.rows, same |-> FALSE]
             ELSE Replay(h, i + 1, r.rows, r.seq)
Orders(n) == {f \in [1..n -> 1..n] : \A a, b \in 1..n : f[a] = f[b] => a = b}

\* C24: under every interleaving, the ids of the successful inserts are all
\* different; a read returns NotFound, a failure of the engine, or exactly
\* a record some insert or update wrote; and once every call has returned
\* the table is the one some sequential order of the returned writes
\* leaves, with the results they returned.
C24_AtomicOperations ==
    /\ \A i, j \in 1..Len(hist) :
          (i # j /\ hist[i].op = "insert_job" /\ hist[j].op = "insert_job") =>
              hist[i].res.id # hist[j].res.id
    /\ \A c \in Callers :
          (procs[c].pc = "done" /\ procs[c].call.op = "insert_job" /\ procs[c].call.res.ok) =>
              /\ procs[c].call.res.id \notin InsertedIds(HistCalls)
              /\ \A d \in Callers \ {c} :
                    procs[c].call.res.id \notin InsertedIds(DoneCalls \ {procs[c].call})
    /\ \A c \in Callers :
          (procs[c].pc = "done" /\ procs[c].call.op = "get_job_by_id" /\ procs[c].call.res.ok) =>
              \E j \in ConcInserts \cup ConcUpdates :
                  procs[c].call.res = row_to_job_application(procs[c].call.id, BindJob(j, clock))
    /\ (\A c \in Callers : procs[c].pc = "idle") =>
          \E f \in Orders(Len(hist)) :
              LET r == Replay([i \in 1..Len(hist) |-> hist[f[i]]], 1, << >>, 0)
              IN  r.same /\ r.rows = rows

\* three writes have returned, two of them inserts that were in flight at
\* the same time and returned in the order opposite to their ids
C24_Witness ==
    /\ \A c \in Callers : procs[c].pc = "idle"
    /\ Len(hist) = MaxOps
    /\ hist[1].op = "insert_job" /\ hist[1].res = OkId(2)
    /\ hist[2].op = "insert_job" /\ hist[2].res = OkId(1)
    /\ hist[3].op = "update_job" /\ hist[3].res.ok

\* C25: a caller's update_job(j) followed by its get_job_by_id(j.id) is not
\* atomic: the read returns NotFound or another record than j only when
\* another caller's write ran between the two statements, and it does so
\* in some interleaving (C25_Witness).
C25_UpdateThenGetInterleaved ==
    \A c \in Callers :
        LET p == procs[c]
        IN  (/\ p.pc = "done"
             /\ p.call.op = "get_job_by_id"
             /\ p.prev.op = "update_job"
             /\ p.prev.res.ok
             /\ p.call.id = Unwrap(Unwrap(p.prev.job).id)
             /\ p.call.res # Err(Busy)
             /\ p.call.res # row_to_job_application(p.call.id, BindJob(Unwrap(p.prev.job), clock)))
            => p.disturbed

\* caller A's update of row 1 returned Ok and its next read of row 1
\* returns NotFound, caller B's delete having run between them
C25_Witness ==
    /\ procs["A"].pc = "done"
    /\ procs["A"].call.op = "get_job_by_id"
    /\ procs["A"].call.res = Err(NotFound(1))
    /\ procs["A"].prev.op = "update_job"
    /\ procs["A"].prev.res = OkUnit
    /\ procs["A"].disturbed
    /\ procs["B"].call.op = "delete_job"
    /\ procs["B"].call.res = OkUnit

\* the stored row cannot be decoded: its status text is none of the four
\* encodings, or its date text is present and no ISO date
Undecodable(row) ==
    \/ ~from_db_string(row.status).ok
    \/ IsSome(row.date) /\ Unwrap(row.date) \notin IsoDateTexts

C26_ListMatchesStore ==
    (/\ tasks = << >>
     /\ last.op = "JobsLoaded"
     /\ last.from \in {"SaveJob", "DeleteJob", "ClearDatabase"}
     /\ last.res.ok)
    => OkJobs(app.jobs) \in get_all_jobs(rows)

\* the application state a SaveJob(id) that converts leaves, and its task
SavedApp(a) == [a EXCEPT !.editing_job_id = None, !.error_message = None]
SaveTask(a, id) ==
    LET job == to_job(a.edit_form, IF id = 0 THEN None ELSE Some(id)).job
    IN  [kind |-> "SaveJob", pc |-> "write",
         write |-> [op |-> IF id = 0 THEN "insert_job" ELSE "update_job",
                    job |-> Some(job), id |-> 0],
         fetches |-> TRUE, calls |-> << >>, msg |-> OkJobs(<< >>)]
Converts(a, id) == to_job(a.edit_form, IF id = 0 THEN None ELSE Some(id)).ok

\* C28: SaveJob(id) on a form that converts, with the database connected,
\* sets editing_job_id and error_message to None and starts one task, which
\* begins with insert_job of a record without id when id = 0 and with
\* update_job of a record with id Some(id) otherwise; the task calls
\* get_all_jobs only after its write succeeded, and it ends in one JobsLoaded
\* message: Ok with the fetched list, or Err with the text of the error of
\* the call that failed.
C28_SaveStartsOneTask ==
    /\ [][(last'.op = "SaveJob" /\ OnSaveJob(last'.id)
           /\ Converts(app, last'.id) /\ app.database) =>
              /\ app' = SavedApp(app)
              /\ tasks' = Append(tasks, SaveTask(app, last'.id))
              /\ IF last'.id = 0
                 THEN Unwrap(tasks'[Len(tasks')].write.job).id = None
                 ELSE Unwrap(tasks'[Len(tasks')].write.job).id = Some(last'.id)
              /\ rows' = rows]_vars
    /\ [][\A t \in 1..Len(tasks) :
              (Len(tasks') = Len(tasks) /\ tasks[t].kind = "SaveJob"
               /\ tasks[t].pc # "done" /\ tasks'[t].pc = "done") =>
                  IF tasks[t].pc = "fetch"
                  THEN /\ rows' = rows
                       /\ \E r \in get_all_jobs(rows) :
                             tasks'[t].msg = IF r.ok THEN r ELSE Err(to_string(r.err))
                  ELSE LET w == Statement(tasks[t].write, rows, seq, clock)
                       IN  ~w.res.ok /\ tasks'[t].msg = Err(to_string(w.res.err))]_vars
    /\ [][Len(tasks') < Len(tasks) =>
              /\ last'.op = "JobsLoaded"
              /\ Len(tasks') = Len(tasks) - 1
              /\ \E t \in 1..Len(tasks) :
                    /\ tasks[t].pc = "done"
                    /\ last'.from = tasks[t].kind
                    /\ last'.res.ok = tasks[t].msg.ok
                    /\ app' = on_jobs_loaded(app, tasks[t].msg).app]_vars
    /\ [](\A t \in 1..Len(tasks) :
            tasks[t].kind = "SaveJob" =>
              LET c == tasks[t].calls
              IN  /\ Len(c) <= 2
                  /\ Len(c) >= 1 => c[1].op = tasks[t].write.op
                  /\ Len(c) = 2 => c[1].ok /\ c[2].op = "get_all_jobs"
                  /\ tasks[t].pc = "write" <=> Len(c) = 0
                  /\ tasks[t].pc = "fetch" <=> (Len(c) = 1 /\ c[1].ok)
                  /\ tasks[t].pc = "done" =>
                        /\ tasks[t].msg.ok <=> (Len(c) = 2 /\ c[2].ok)
                        /\ ~tasks[t].msg.ok => ~c[Len(c)].ok)

\* SaveJob(1) has been handled for a listed job and its update_job task is
\* about to run
C28_Witness ==
    /\ last.op = "SaveJob"
    /\ last.id = 1
    /\ app.editing_job_id = None
    /\ Len(tasks) = 1
    /\ tasks[1].kind = "SaveJob"
    /\ tasks[1].pc = "write"
    /\ tasks[1].write.op = "update_job"
    /\ Unwrap(tasks[1].write.job).id = Some(1)

\* C29: SaveJob on a form that to_job rejects starts no task and touches
\* no row; it sets error_message to the validation message and leaves
\* every other field of the application as it was.
C29_SaveRejected ==
    [][(last'.op = "SaveJob" /\ OnSaveJob(last'.id) /\ ~Converts(app, last'.id)) =>
          LET r == to_job(app.edit_form, IF last'.id = 0 THEN None ELSE Some(last'.id))
          IN  /\ tasks' = tasks
              /\ rows' = rows /\ seq' = seq
              /\ app' = [app EXCEPT !.error_message = Some(Text(r.err))]
              /\ app'.editing_job_id = app.editing_job_id
              /\ app'.edit_form = app.edit_form
              /\ app'.jobs = app.jobs
              /\ app'.selected_job_id = app.selected_job_id]_vars

\* SaveJob(0) on the form AddNewJob opens, whose salary fields are empty
C29_Witness ==
    /\ last.op = "SaveJob"
    /\ last.id = 0
    /\ app.editing_job_id = Some(0)
    /\ app.error_message = Some(Text(InvalidMinMsg))
    /\ app.database

\* C30: while editing_job_id is Some, AddNewJob and EditJob(id) leave
\* editing_job_id and edit_form as they are, and editing_job_id becomes None
\* only by CancelEdit or by a SaveJob whose form converts.
C30_EditNotReplaced ==
    [][IsSome(app.editing_job_id) =>
          /\ (last'.op \in {"AddNewJob", "EditJob"} /\ last' # last) =>
                /\ app'.editing_job_id = app.editing_job_id
                /\ app'.edit_form = app.edit_form
          /\ IsNone(app'.editing_job_id) =>
                \/ last'.op = "CancelEdit"
                \/ last'.op = "SaveJob" /\ Converts(app, last'.id)]_vars
\* C31: selected_job_id is None or the id of a record of the job list of
\* the application.
C31_SelectionListed ==
    IsNone(app.selected_job_id) \/ Listed(app, Unwrap(app.selected_job_id)) # {}
\* The step that handles the result of task t, when it is JobsLoaded(Err(e)),
\* sets error_message to e and leaves the job list, the selection and the
\* edit state alone; when it is JobsLoaded(Ok(list)), it replaces the job
\* list with list and clears error_message.
LoadResultHandled ==
    \A t \in 1..Len(tasks) :
        (tasks[t].pc = "done" /\ last'.op = "JobsLoaded" /\ tasks' = Remove(tasks, t)) =>
            IF tasks[t].msg.ok
            THEN /\ app'.jobs = tasks[t].msg.jobs
                 /\ IsNone(app'.error_message)
            ELSE /\ app'.error_message = Some(tasks[t].msg.err)
                 /\ app'.jobs = app.jobs
                 /\ app'.selected_job_id = app.selected_job_id
                 /\ app'.editing_job_id = app.editing_job_id
                 /\ app'.edit_form = app.edit_form
\* C32 as stated: load results are handled as LoadResultHandled says, and
\* error_message is Some exactly when the most recent of a load result or a
\* save validation was a failure.
C32_ErrorIsLatestFailure ==
    /\ [][LoadResultHandled]_vars
    /\ [](IsSome(app.error_message) <=> recent.loaded)
\* C32, amended: load results are handled as LoadResultHandled says, and
\* error_message is Some exactly when the most recent of a database
\* initialization, a load result or a save validation was a failure (a
\* database initialization never is one: DatabaseInitialized clears the
\* message).
C32_ErrorIsLatestResult ==
    /\ [][LoadResultHandled]_vars
    /\ [](IsSome(app.error_message) <=> recent.failed)
\* a failed load result has been handled while a record was being edited,
\* and its message is shown
C32_Witness ==
    /\ last.op = "JobsLoaded"
    /\ ~last.res.ok
    /\ app.error_message = Some(last.res.err)
    /\ IsSome(app.editing_job_id)
    /\ recent.failed
\* C33: for every record j, the form from_job(j) makes is converted by
\* to_job(j.id) to Ok of a record equal to j in every field.
C33_FormRoundTrip ==
    (/\ last.op = "from_job"
     /\ form.phase = "converted"
     /\ form.fields = from_job(Unwrap(last.job))) =>
        /\ form.res.ok
        /\ form.res.job.id = Unwrap(last.job).id => form.res.job = Unwrap(last.job)
\* C34: a store opened with the in-memory marker is empty, get_all_jobs on it
\* returns the empty sequence whatever the stores opened before hold, opening
\* it changes no other store, and no step changes what more than one handle
\* reaches: a write through one handle is not visible through another.
C34_MemoryStoresIsolated ==
    /\ [][(last'.op = "new" /\ Len(handles') > Len(handles)) =>
            /\ get_all_jobs(pools'[handles'[Len(handles')]].rows) = {OkJobs(<< >>)}
            /\ \A g \in DOMAIN handles : pools'[handles'[g]] = pools[handles[g]]]_vars
    /\ [][Cardinality({g \in DOMAIN handles : pools'[handles'[g]] # pools[handles[g]]}) <= 1]_vars
    /\ [](\A h \in DOMAIN handles :
            (last.op = "get_all_jobs" /\ last.id = h /\ DOMAIN pools[handles[h]].rows = {}) =>
                last.res = OkJobs(<< >>))
\* two in-memory stores, the first holds a record, and get_all_jobs on the
\* second has returned the empty sequence
C34_Witness ==
    /\ Len(handles) >= 2
    /\ DOMAIN pools[handles[1]].rows # {}
    /\ handles[2] # handles[1]
    /\ pools[handles[2]].seq = 0
    /\ last = Call("get_all_jobs", None, 2, OkJobs(<< >>))
\* C35: a record with salary.min > salary.max is accepted by insert_job and
\* (when its id names a row) by update_job, its row holds min and max as
\* given, and get_job_by_id of a row with min > max returns that min and max.
C35_SalaryKeptAsGiven ==
    /\ [][(last'.op = "insert_job" /\ MagLess(Unwrap(last'.job).salary.max, Unwrap(last'.job).salary.min)) =>
            /\ last'.res.ok
            /\ rows'[last'.res.id].salary_min = I64FromU32(Unwrap(last'.job).salary.min)
            /\ rows'[last'.res.id].salary_max = I64FromU32(Unwrap(last'.job).salary.max)]_vars
    /\ [][(/\ last'.op = "update_job"
           /\ MagLess(Unwrap(last'.job).salary.max, Unwrap(last'.job).salary.min)
           /\ IsSome(Unwrap(last'.job).id)
           /\ Unwrap(Unwrap(last'.job).id) \in DOMAIN rows) =>
            /\ last'.res.ok
            /\ rows'[Unwrap(Unwrap(last'.job).id)].salary_min = I64FromU32(Unwrap(last'.job).salary.min)
            /\ rows'[Unwrap(Unwrap(last'.job).id)].salary_max = I64FromU32(Unwrap(last'.job).salary.max)]_vars
    /\ []((/\ last.op = "get_job_by_id"
           /\ last.id \in DOMAIN rows
           /\ ~rows[last.id].salary_min.neg
           /\ ~rows[last.id].salary_max.neg
           /\ MagLess(rows[last.id].salary_max.mag, rows[last.id].salary_min.mag)) =>
            /\ last.res.ok
            /\ I64FromU32(last.res.job.salary.min) = rows[last.id].salary_min
            /\ I64FromU32(last.res.job.salary.max) = rows[last.id].salary_max)
\* get_job_by_id has returned a record whose salary.min is above its
\* salary.max
C35_Witness ==
    /\ last.op = "get_job_by_id"
    /\ last.res.ok
    /\ last.res.job.salary = SalaryRange(U32_MAX_MAG, <<0>>)
\* the rank the claim gives the variants
DeclaredRank(s) ==
    IF s.tag = "Applied" THEN 1 ELSE IF s.tag = "Interview" THEN 2
    ELSE IF s.tag = "Offer" THEN 3 ELSE 4
\* C36: the comparison of two Status values is a total order (equal only on
\* the same value, the reverse when the operands are exchanged, transitive)
\* that puts Applied < Interview(n) < Offer(a) < Rejected for every n and a,
\* compares two Interview values by round and two Offer values by signed
\* amount; the default Status is Applied.
C36_StatusOrder ==
    /\ last.op = "cmp" =>
          /\ last.res \in {"Less", "Equal", "Greater"}
          /\ last.res = "Equal" <=> last.a = last.b
          /\ last.res = "Less" <=> status_cmp(last.b, last.a) = "Greater"
          /\ \A c \in OrderStatuses :
                (last.res = "Less" /\ status_cmp(last.b, c) = "Less") =>
                    status_cmp(last.a, c) = "Less"
          /\ DeclaredRank(last.a) < DeclaredRank(last.b) => last.res = "Less"
          /\ DeclaredRank(last.a) > DeclaredRank(last.b) => last.res = "Greater"
          /\ (last.a.tag = last.b.tag /\ last.a.tag \in {"Interview", "Offer"}) =>
                /\ last.res = "Less" <=> last.a.n < last.b.n
                /\ last.res = "Greater" <=> last.a.n > last.b.n
    /\ last.op = "default" => last.a = [tag |-> "Applied", n |-> 0]
\* two offers of which the first has the lower, negative amount and the
\* larger magnitude have been compared
C36_Witness ==
    /\ last.op = "cmp"
    /\ last.a = Offer(-75000)
    /\ last.b = Offer(10)
    /\ last.res = "Less"
====
